---- MODULE Spec2Model ----
(***************************************************************************)
(* Benchmark measurement and comparison engine of nyc-taxi-dwh-pipeline:   *)
(* the timing harness (src/pipeline/benchmarks.py), the run resolver and   *)
(* comparator (src/pipeline/bench_compare.py) and the command line         *)
(* (src/cli.py).                                                           *)
(*                                                                         *)
(* Strings are sequences of one-character strings, so that strip, lower,   *)
(* the file-name grammar and Python's code-point ordering are computed,    *)
(* not assumed.  Floating point values that can be nan/inf are records     *)
(* [k, v]; finite values are exact integers in a stated unit.              *)
(***************************************************************************)
EXTENDS Integers, Sequences, FiniteSets, TLC

VARIABLES
    fs,      \* file system: path -> file content
    now,     \* wall clock (UTC): [sec, usec]
    last,    \* the last call made: its arguments and its outcome
    inv,     \* harness invocations in flight: process -> where it stands
    db       \* the store: rows of raw.yellow_trips per batch_id, the zones

vars == <<fs, now, last, inv, db>>

-----------------------------------------------------------------------------
(* Bounds of the model *)

MaxIters   == 2    \* iters argument ranges over 0..MaxIters
MaxWarmup  == 1    \* warmup argument ranges over 0..MaxWarmup
MaxSec     == 1    \* the clock reads seconds 0..MaxSec
MaxUsec    == 1    \* ... and microseconds 0..MaxUsec within a second
MaxSample  == 4    \* longest sample handed to _pct
MaxRuns    == 1    \* invocations a process makes when processes interleave
MaxReports == 1    \* measurement CSVs on disk when run ids are generated

-----------------------------------------------------------------------------
(* Strings *)

\* The characters that occur, in code-point order (Python compares str by
\* code point).
CodePoints ==
    <<" ", ".", "0", "1", "2", "3", "4", "5", "6", "7", "8", "9",
      "A", "B", "_",
      "a", "b", "c", "d", "e", "f", "g", "h", "i", "j", "k", "l", "m",
      "n", "o", "p", "q", "r", "s", "t", "u", "v", "w", "x", "y", "z">>

Ord(c) == CHOOSE i \in 1..Len(CodePoints) : CodePoints[i] = c

\* s < t for Python str
RECURSIVE StrLess(_, _)
StrLess(s, t) ==
    IF t = <<>> THEN FALSE
    ELSE IF s = <<>> THEN TRUE
    ELSE IF Head(s) = Head(t) THEN StrLess(Tail(s), Tail(t))
    ELSE Ord(Head(s)) < Ord(Head(t))

\* the absent value (None); distinct from every string
None == <<"<None>">>

\* str.strip() for the whitespace that occurs
RECURSIVE LStrip(_)
LStrip(s) == IF s # <<>> /\ Head(s) = " " THEN LStrip(Tail(s)) ELSE s

RECURSIVE RStrip(_)
RStrip(s) ==
    IF s # <<>> /\ s[Len(s)] = " " THEN RStrip(SubSeq(s, 1, Len(s) - 1)) ELSE s

Strip(s) == RStrip(LStrip(s))

\* str.lower()
LowerChar(c) == CASE c = "A" -> "a" [] c = "B" -> "b" [] OTHER -> c

Lower(s) == [i \in 1..Len(s) |-> LowerChar(s[i])]

StartsWith(s, pre) == Len(s) >= Len(pre) /\ SubSeq(s, 1, Len(pre)) = pre

EndsWith(s, suf) ==
    Len(s) >= Len(suf) /\ SubSeq(s, Len(s) - Len(suf) + 1, Len(s)) = suf

\* zero-padded decimal of n in w digits (strftime fields)
RECURSIVE Digits(_, _)
Digits(n, w) ==
    IF w = 0 THEN <<>>
    ELSE Append(Digits(n \div 10, w - 1), CodePoints[(n % 10) + 3])

S_benchmarks == <<"b", "e", "n", "c", "h", "m", "a", "r", "k", "s", "_">>
S_before     == <<"b", "e", "f", "o", "r", "e">>
S_after      == <<"a", "f", "t", "e", "r">>
S_csv        == <<".", "c", "s", "v">>
S_md         == <<".", "m", "d">>
S_us         == <<"_">>
S_mixed      == <<"m", "i", "x", "e", "d">>

-----------------------------------------------------------------------------
(* Numbers *)

\* round-half-to-even of the rational n/d, d > 0 (Python 3 round(),
\* numpy rint)
RoundHalfEven(n, d) ==
    LET q == n \div d
        r == n % d
    IN  IF 2 * r < d THEN q
        ELSE IF 2 * r > d THEN q + 1
        ELSE IF q % 2 = 0 THEN q ELSE q + 1

Fin(v) == [k |-> "fin", v |-> v]
NaN    == [k |-> "nan", v |-> 0]
PosInf == [k |-> "inf", v |-> 0]
NegInf == [k |-> "ninf", v |-> 0]

Sorted(values) == SortSeq(values, LAMBDA a, b : a < b)

-----------------------------------------------------------------------------
(* benchmarks.py: catalog, statistics, identities *)

\* Bound on the catalog: the harness runs the first NumQueries entries
NumQueries == 2

\* QUERIES, in declaration order (dict order)
CatalogIds ==
    <<"q1_top_pickup_zones_day", "q2_revenue_by_day", "q2_mart_daily_revenue",
      "q3_join_zone_lookup_top20", "q4_payment_type_stats", "q5_hourly_peak",
      "q5_mart_hourly_peak">>

QUERIES == SubSeq(CatalogIds, 1, NumQueries)

\* the catalog ids in str order, as pandas groupby(sort=True) lists them
CatalogSorted ==
    <<"q1_top_pickup_zones_day", "q2_mart_daily_revenue", "q2_revenue_by_day",
      "q3_join_zone_lookup_top20", "q4_payment_type_stats", "q5_hourly_peak",
      "q5_mart_hourly_peak">>

QueryRank(q) == CHOOSE i \in 1..Len(CatalogSorted) : CatalogSorted[i] = q

Q1 == CatalogIds[1]
Q2 == CatalogIds[2]

\* _pct(values, p) with p = pct/100; values in any integer unit
Pct_OffByFloor(values, pct) ==
    IF values = <<>> THEN NaN
    ELSE Fin(Sorted(values)[(((Len(values) - 1) * pct) \div 100) + 1])

_pct(values, pct) ==
    IF values = <<>> THEN NaN
    ELSE LET s == Sorted(values)
             k == RoundHalfEven((Len(s) - 1) * pct, 100)
         IN  Fin(s[k + 1])

\* twice the pandas median of a non-empty sample (mean of the two middle
\* elements when the count is even)
Median2(values) ==
    LET s == Sorted(values)
        n == Len(s)
    IN  IF n % 2 = 1 THEN 2 * s[(n + 1) \div 2]
        ELSE s[n \div 2] + s[(n \div 2) + 1]

RECURSIVE SeqSum(_)
SeqSum(s) == IF s = <<>> THEN 0 ELSE Head(s) + SeqSum(Tail(s))

\* the least string of a non-empty set
StrMin(S) == CHOOSE s \in S : \A t \in S : t = s \/ StrLess(s, t)

\* sorted(S) for a set of strings
RECURSIVE SortedStrs(_)
SortedStrs(S) ==
    IF S = {} THEN <<>>
    ELSE LET m == StrMin(S) IN <<m>> \o SortedStrs(S \ {m})

\* _normalize_batch_ids: None or empty -> []; strip, drop blanks,
\* de-duplicate, sort
_normalize_batch_ids(batch_ids) ==
    IF batch_ids = None \/ batch_ids = <<>> THEN <<>>
    ELSE SortedStrs({Strip(batch_ids[i]) : i \in 1..Len(batch_ids)} \ {<<>>})

\* The clock counts seconds from 2024-01-01T00:00:00 UTC; the date of a reading
\* follows the Gregorian calendar.
SecPerDay == 86400

IsLeap(y) == (y % 4 = 0 /\ y % 100 # 0) \/ y % 400 = 0

DaysInMonth(y, m) ==
    CASE m \in {4, 6, 9, 11} -> 30
      [] m = 2 -> IF IsLeap(y) THEN 29 ELSE 28
      [] OTHER -> 31

\* the date d days after the first of month m of year y
RECURSIVE Calendar(_, _, _)
Calendar(y, m, d) ==
    IF d < DaysInMonth(y, m) THEN [year |-> y, month |-> m, day |-> d + 1]
    ELSE Calendar(IF m = 12 THEN y + 1 ELSE y, IF m = 12 THEN 1 ELSE m + 1,
                  d - DaysInMonth(y, m))

DateOf(t) == Calendar(2024, 1, t.sec \div SecPerDay)

\* %Y%m%d
S_date(t) ==
    Digits(DateOf(t).year, 4) \o Digits(DateOf(t).month, 2) \o Digits(DateOf(t).day, 2)

\* %Y-%m-%d
S_dateDash(t) ==
    Digits(DateOf(t).year, 4) \o <<"-">> \o Digits(DateOf(t).month, 2)
        \o <<"-">> \o Digits(DateOf(t).day, 2)

HH(t) == Digits((t.sec % SecPerDay) \div 3600, 2)
MM(t) == Digits((t.sec % 3600) \div 60, 2)
SS(t) == Digits(t.sec % 60, 2)

\* datetime.utcnow().strftime("%Y%m%d_%H%M%S_%f")
GenerateRunId_NoMicros(t) == S_date(t) \o S_us \o HH(t) \o MM(t) \o SS(t)

_generate_run_id(t) ==
    S_date(t) \o S_us \o HH(t) \o MM(t) \o SS(t) \o S_us \o Digits(t.usec, 6)

\* datetime.utcnow().strftime("%Y-%m-%dT%H:%M:%SZ")
_utc_now(t) ==
    S_dateDash(t) \o <<"T">> \o HH(t) \o <<":">> \o MM(t) \o <<":">> \o SS(t)
        \o <<"Z">>

\* _git_sha: raw is the output of `git rev-parse HEAD`, or None when the
\* subprocess fails
_git_sha(raw) ==
    IF raw = None THEN None
    ELSE IF Strip(raw) = <<>> THEN None ELSE Strip(raw)

-----------------------------------------------------------------------------
(* benchmarks.py: the store, the file system *)

Max0(n) == IF n > 0 THEN n ELSE 0

\* Optional[int]
IntNone    == [ok |-> FALSE, n |-> 0]
IntSome(n) == [ok |-> TRUE, n |-> n]

\* the relations whose rows the diagnostics count, in the order counted
Relations ==
    <<"raw.yellow_trips", "stg.stg_yellow_trips", "clean.clean_yellow_trips",
      "quarantine.quarantine_yellow_trips", "marts.marts_daily_revenue",
      "marts.marts_hourly_peak">>

RelationSet == {Relations[i] : i \in 1..Len(Relations)}

\* _safe_count: a statement that fails on an autocommit connection fails alone
_safe_count_Aborted(store, relation) ==
    IF store.broken # {} THEN IntNone
    ELSE IntSome(store.counts[relation])

_safe_count(store, relation) ==
    IF relation \in store.broken THEN IntNone
    ELSE IntSome(store.counts[relation])

\* _safe_distinct_batch_ids
_safe_distinct_batch_ids(store, relation) ==
    IF relation \in store.broken THEN <<>>
    ELSE SortedStrs(store.batches[relation])

\* Path("data") / "reports"
OutDir == <<"d", "a", "t", "a", "/", "r", "e", "p", "o", "r", "t", "s">>

Path(dir, name) == [dir |-> dir, name |-> name]

OutDirPath == Path(OutDir, <<>>)

S_bench_meta == <<"b", "e", "n", "c", "h", "_", "m", "e", "t", "a", "_">>
S_json       == <<".", "j", "s", "o", "n">>
S_speedup    == <<"s", "p", "e", "e", "d", "u", "p", "_">>

CsvName(run_id, phase) == S_benchmarks \o run_id \o S_us \o phase \o S_csv
MdName(run_id, phase)  == S_benchmarks \o run_id \o S_us \o phase \o S_md
MetaName(run_id)       == S_bench_meta \o run_id \o S_json

Exists(files, path) == path \in DOMAIN files

\* files with path written (created or replaced) with content
WriteFile(files, path, content) ==
    [p \in DOMAIN files \cup {path} |-> IF p = path THEN content ELSE files[p]]

\* out_dir.mkdir(parents=True, exist_ok=True)
Mkdir(files, path) ==
    IF Exists(files, path) THEN files ELSE WriteFile(files, path, [kind |-> "dir"])

\* {} as _load_meta returns it: every .get() of it is None
EmptyMeta == [git_sha |-> None, created_at |-> None, phases |-> <<>>]

\* _load_meta: {} when the file is missing or does not hold a JSON object
_load_meta(files, path) ==
    IF ~Exists(files, path) THEN EmptyMeta
    ELSE IF files[path].kind # "json" THEN EmptyMeta
    ELSE files[path].obj

-----------------------------------------------------------------------------
(* benchmarks.py: run_benchmarks *)

\* the executions of one query: warmup ones, then the measured ones 1..iters
QueryExecs_MeasuredFirst(q, warmup, iters) ==
    [i \in 1..Max0(iters) |-> [query |-> q, kind |-> "measured", i |-> i]]
        \o [j \in 1..Max0(warmup) |-> [query |-> q, kind |-> "warmup", i |-> j]]

QueryExecs(q, warmup, iters) ==
    [j \in 1..Max0(warmup) |-> [query |-> q, kind |-> "warmup", i |-> j]]
        \o [i \in 1..Max0(iters) |-> [query |-> q, kind |-> "measured", i |-> i]]

\* the executions of the catalog's queries qs, in declaration order
RECURSIVE Plan(_, _, _)
Plan(qs, warmup, iters) ==
    IF qs = <<>> THEN <<>>
    ELSE QueryExecs(Head(qs), warmup, iters) \o Plan(Tail(qs), warmup, iters)

\* times of one query, as perf_counter differences (ns)
Times(env, q, iters) == [i \in 1..Max0(iters) |-> env.dt[q][i]]

\* round(dt_ms, 3), in thousandths of a millisecond
ElapsedMs(dt_ns) == RoundHalfEven(dt_ns, 1000)

\* rows appended for one query
QueryRows_WithWarmup(env, run_id, phase, q, warmup, iters) ==
    [i \in 1..(Max0(warmup) + Max0(iters)) |->
        [run_id |-> run_id, phase |-> phase, query |-> q, iter |-> i,
         elapsed_ms |-> ElapsedMs(env.dt[q][1])]]

QueryRows(env, run_id, phase, q, warmup, iters) ==
    [i \in 1..Max0(iters) |->
        [run_id |-> run_id, phase |-> phase, query |-> q, iter |-> i,
         elapsed_ms |-> ElapsedMs(env.dt[q][i])]]

RECURSIVE AllRows(_, _, _, _, _, _)
AllRows(env, run_id, phase, qs, warmup, iters) ==
    IF qs = <<>> THEN <<>>
    ELSE QueryRows(env, run_id, phase, Head(qs), warmup, iters)
            \o AllRows(env, run_id, phase, Tail(qs), warmup, iters)

SeqMin(s) == CHOOSE x \in {s[i] : i \in 1..Len(s)} :
                \A j \in 1..Len(s) : x <= s[j]
SeqMax(s) == CHOOSE x \in {s[i] : i \in 1..Len(s)} :
                \A j \in 1..Len(s) : x >= s[j]

\* the "[bench] name: median=... p95=... min=... max=..." line
ProgressLine(env, q, iters) ==
    LET times == Times(env, q, iters)
    IN  [query |-> q, median |-> _pct(times, 50), p95 |-> _pct(times, 95),
         min |-> SeqMin(times), max |-> SeqMax(times)]

\* the elapsed_ms column of the rows of query q
ElapsedOf(rows, q) ==
    LET idx == {i \in 1..Len(rows) : rows[i].query = q}
        RECURSIVE Pick(_)
        Pick(k) == IF k > Len(rows) THEN <<>>
                   ELSE IF k \in idx THEN <<rows[k].elapsed_ms>> \o Pick(k + 1)
                   ELSE Pick(k + 1)
    IN  Pick(1)

QueriesOf(rows) == {rows[i].query : i \in 1..Len(rows)}

\* the ids of a set of queries in groupby order
RECURSIVE GroupKeys(_)
GroupKeys(S) ==
    IF S = {} THEN <<>>
    ELSE LET m == CHOOSE q \in S : \A r \in S : QueryRank(q) <= QueryRank(r)
         IN  <<m>> \o GroupKeys(S \ {m})

\* df.groupby([run_id, phase, query])["elapsed_ms"].agg(count, min, max,
\* mean, median); mean is sum/count, median is median2/2
Summary(rows) ==
    LET keys == GroupKeys(QueriesOf(rows))
    IN  [g \in 1..Len(keys) |->
            LET e == ElapsedOf(rows, keys[g])
            IN  [query |-> keys[g], count |-> Len(e), min |-> SeqMin(e),
                 max |-> SeqMax(e), sum |-> SeqSum(e), median2 |-> Median2(e)]]

\* phases_meta with phases_meta[phase] = entry
SetPhase_DropOthers(phases_meta, phase, entry) ==
    [p \in {phase} |-> entry]

SetPhase(phases_meta, phase, entry) ==
    [p \in DOMAIN phases_meta \cup {phase} |->
        IF p = phase THEN entry ELSE phases_meta[p]]

\* x or y, for Optional[str]
StrOr(x, y) == IF x = None \/ x = <<>> THEN y ELSE x

\* "created_at" of the payload
PayloadCreatedAt_Overwrite(meta, created_at) == created_at

PayloadCreatedAt(meta, created_at) == StrOr(meta.created_at, created_at)

\* what a call of run_benchmarks leaves behind
BenchFailure(files, status, exc, executed, stdout, io) ==
    [status |-> status, exc |-> exc, files |-> files, ret |-> Path(OutDir, None),
     executed |-> executed, stdout |-> stdout, run_id |-> None, phase |-> None,
     io |-> io]

\* the files when an execution raises inside the loop: the rows measured so
\* far are in the list `rows` only, and df.to_csv comes after the loop
FilesAtFailure_Flushed(files, csv_path, measured) ==
    WriteFile(files, csv_path, [kind |-> "csv", rows |-> measured])

FilesAtFailure(files, csv_path, measured) == files

\* the check of benchmarks.py:185
PhaseOk_Any(normalized_phase) == TRUE

PhaseOk(normalized_phase) == normalized_phase \in {S_before, S_after}

\* what a call does to the world outside, in order, the statements executed
\* left out (they are `executed`)
IoMkdir   == <<"mkdir">>
IoConnect == <<"mkdir", "connect">>
IoAll     ==
    <<"mkdir", "connect", "diagnostics", "write_csv", "write_md", "git",
      "read_meta", "write_meta">>

S_ValueError == "ValueError"

\* what a call holds in memory when the connection is closed
\* (benchmarks.py:184-249): the normalised arguments, the three paths, the rows
\* and the diagnostics
Measured(t, args, env) ==
    LET normalized_phase  == Lower(Strip(args.phase))
        normalized_run_id ==
            LET given == Strip(IF args.run_id = None THEN <<>> ELSE args.run_id)
            IN  IF given = <<>> THEN _generate_run_id(t) ELSE given
    IN  [phase |-> normalized_phase,
         run_id |-> normalized_run_id,
         batch_ids |-> _normalize_batch_ids(args.batch_ids),
         created_at |-> _utc_now(t),
         iters |-> args.iters, warmup |-> args.warmup,
         csv_path |-> Path(OutDir, CsvName(normalized_run_id, normalized_phase)),
         md_path |-> Path(OutDir, MdName(normalized_run_id, normalized_phase)),
         meta_path |-> Path(OutDir, MetaName(normalized_run_id)),
         rows |-> AllRows(env, normalized_run_id, normalized_phase, QUERIES,
                          args.warmup, args.iters),
         row_counts |-> [r \in RelationSet |-> _safe_count(env.store, r)],
         discovered_batches |->
            [raw   |-> _safe_distinct_batch_ids(env.store, "raw.yellow_trips"),
             clean |-> _safe_distinct_batch_ids(env.store,
                                                "clean.clean_yellow_trips")]]

\* df.to_csv(csv_path) and md_path.write_text(...) (benchmarks.py:251-274)
CsvFile(m) == [kind |-> "csv", rows |-> m.rows]

MdFile(m) ==
    [kind |-> "md", phase |-> m.phase, run_id |-> m.run_id,
     generated |-> m.created_at, iters |-> m.iters, warmup |-> m.warmup,
     summary |-> Summary(m.rows), queries |-> QUERIES]

\* the metadata written over the record `meta` that _load_meta returned
\* (benchmarks.py:278-305)
MetaFile(meta, git_sha, m) ==
    [kind |-> "json",
     obj |-> [run_id |-> m.run_id,
              git_sha |-> StrOr(meta.git_sha, git_sha),
              created_at |-> PayloadCreatedAt(meta, m.created_at),
              last_updated_at |-> m.created_at,
              phase |-> m.phase,
              index_state |-> m.phase,
              command_args |-> [iters |-> m.iters, warmup |-> m.warmup],
              requested_batches |-> m.batch_ids,
              discovered_batches |-> m.discovered_batches,
              row_counts |-> m.row_counts,
              phases |-> SetPhase(meta.phases, m.phase,
                            [phase |-> m.phase, index_state |-> m.phase,
                             created_at |-> m.created_at, csv_file |-> m.csv_path,
                             md_file |-> m.md_path, iters |-> m.iters,
                             warmup |-> m.warmup])]]

\* run_benchmarks(iters, warmup, phase, run_id, batch_ids) at clock reading t,
\* on the file system `files`; env is what the call meets: env.connFail (the
\* connection cannot be opened), env.failAt (the execution, counted from 1,
\* that raises; 0 for none), env.dt (elapsed ns per query and iteration),
\* env.git (output of git rev-parse HEAD) and env.store (diagnostics).
run_benchmarks(files, t, args, env) ==
    LET m        == Measured(t, args, env)
        normalized_phase  == m.phase
        normalized_run_id == m.run_id
        csv_path == m.csv_path
        rows     == m.rows
        files1   == Mkdir(files, OutDirPath)
        \* the loop stops at the first query whose sample is empty:
        \* min(times) raises ValueError
        looped   == IF args.iters >= 1 THEN QUERIES ELSE SubSeq(QUERIES, 1, 1)
        plan     == Plan(looped, args.warmup, args.iters)
        failed   == env.failAt \in 1..Len(plan)
        executed == IF failed THEN SubSeq(plan, 1, env.failAt - 1) ELSE plan
        \* progress lines of the queries whose loop body completed
        printed  ==
            IF args.iters < 1 THEN <<>>
            ELSE LET n == Max0(args.warmup) + Max0(args.iters)
                     done == IF failed THEN (env.failAt - 1) \div n
                             ELSE Len(QUERIES)
                 IN  [g \in 1..done |-> ProgressLine(env, QUERIES[g], args.iters)]
        files2   == WriteFile(files1, m.csv_path, CsvFile(m))
        files3   == WriteFile(files2, m.md_path, MdFile(m))
        files4   == WriteFile(files3, m.meta_path,
                        MetaFile(_load_meta(files3, m.meta_path),
                                 _git_sha(env.git), m))
    IN  IF ~PhaseOk(normalized_phase)
        THEN BenchFailure(files, "InvalidArgument", S_ValueError, <<>>, <<>>, <<>>)
        ELSE IF env.connFail
        THEN \* psycopg.connect raises; the directory has been made
             BenchFailure(files1, "ExecutionError", "psycopg.Error", <<>>, <<>>,
                          IoMkdir)
        ELSE IF failed
        THEN BenchFailure(FilesAtFailure(files1, csv_path,
                              SubSeq(rows, 1, Cardinality({i \in 1..Len(executed) :
                                                executed[i].kind = "measured"}))),
                          "ExecutionError", "psycopg.Error", executed, printed,
                          IoConnect)
        ELSE IF args.iters < 1
        THEN \* min() arg is an empty sequence
             BenchFailure(files1, "Crash", S_ValueError, executed, printed, IoConnect)
        ELSE [status |-> "ok", exc |-> "None", files |-> files4, ret |-> csv_path,
              executed |-> executed, stdout |-> printed,
              run_id |-> normalized_run_id, phase |-> normalized_phase,
              io |-> IoAll]

-----------------------------------------------------------------------------
(* bench_compare.py: the run resolver *)

\* Path(s): the directory and the final component of a path string
LastSlash(s) ==
    LET at == {i \in 1..Len(s) : s[i] = "/"}
    IN  IF at = {} THEN 0 ELSE CHOOSE i \in at : \A j \in at : j <= i

PathOf(s) ==
    [dir |-> SubSeq(s, 1, LastSlash(s) - 1),
     name |-> SubSeq(s, LastSlash(s) + 1, Len(s))]

\* out_dir / name
InOutDir(name) == Path(OutDir, name)

S_before_csv == S_us \o S_before \o S_csv
S_after_csv  == S_us \o S_after \o S_csv

\* REPORT_RE = ^benchmarks_(?P<run_id>.+)_(?P<phase>before|after)\.csv$
\* The phase token is anchored at the end, so the greedy run_id is all that
\* lies between the prefix and the final _before.csv or _after.csv, and it has
\* at least one character.
ParseName_NonGreedy(name) ==
    LET cut == {i \in (Len(S_benchmarks) + 2)..Len(name) :
                    \/ StartsWith(SubSeq(name, i, Len(name)), S_us \o S_before)
                    \/ StartsWith(SubSeq(name, i, Len(name)), S_us \o S_after)}
        i == CHOOSE i \in cut : \A j \in cut : i <= j
    IN  IF ~StartsWith(name, S_benchmarks) \/ ~EndsWith(name, S_csv) \/ cut = {}
        THEN [run_id |-> None, phase |-> None]
        ELSE [run_id |-> SubSeq(name, Len(S_benchmarks) + 1, i - 1),
              phase |-> IF StartsWith(SubSeq(name, i, Len(name)), S_us \o S_before)
                        THEN S_before ELSE S_after]

ParseName(name) ==
    LET body == SubSeq(name, Len(S_benchmarks) + 1, Len(name))
    IN  IF ~StartsWith(name, S_benchmarks) THEN [run_id |-> None, phase |-> None]
        ELSE IF EndsWith(body, S_before_csv) /\ Len(body) > Len(S_before_csv)
        THEN [run_id |-> SubSeq(body, 1, Len(body) - Len(S_before_csv)),
              phase |-> S_before]
        ELSE IF EndsWith(body, S_after_csv) /\ Len(body) > Len(S_after_csv)
        THEN [run_id |-> SubSeq(body, 1, Len(body) - Len(S_after_csv)),
              phase |-> S_after]
        ELSE [run_id |-> None, phase |-> None]

\* _parse_report_name(path)
_parse_report_name(path) == ParseName(path.name)

\* out_dir.glob("benchmarks_*_*.csv"): the entries of out_dir whose name is
\* benchmarks_ + anything + _ + anything + .csv
GlobMatch(name) ==
    /\ StartsWith(name, S_benchmarks)
    /\ EndsWith(name, S_csv)
    /\ Len(name) >= Len(S_benchmarks) + Len(S_csv) + 1
    /\ \E i \in (Len(S_benchmarks) + 1)..(Len(name) - Len(S_csv)) : name[i] = "_"

Glob(files, out_dir) ==
    {p \in DOMAIN files : p.dir = out_dir /\ p.name # <<>> /\ GlobMatch(p.name)}

\* the greatest string of a non-empty set: sorted(...)[-1]
StrMax_Least(S) == StrMin(S)

StrMax(S) == CHOOSE s \in S : \A t \in S : t = s \/ StrLess(t, s)

\* runs: run_id -> set of phases, over the globbed names that parse
Runs(files, out_dir) ==
    LET parsed == {_parse_report_name(p) : p \in Glob(files, out_dir)}
        usable == {r \in parsed : r.run_id # None /\ r.run_id # <<>>
                                    /\ r.phase \in {S_before, S_after}}
    IN  [id \in {r.run_id : r \in usable} |->
            {r.phase : r \in {u \in usable : u.run_id = id}}]

CompleteRuns_AnyPhase(files, out_dir) == DOMAIN Runs(files, out_dir)

CompleteRuns(files, out_dir) ==
    {id \in DOMAIN Runs(files, out_dir) :
        {S_before, S_after} \subseteq Runs(files, out_dir)[id]}

\* _latest_complete_run(out_dir): the run_id, or None for FileNotFoundError
_latest_complete_run(files, out_dir) ==
    IF CompleteRuns(files, out_dir) = {} THEN None
    ELSE StrMax(CompleteRuns(files, out_dir))

S_FileNotFoundError == "FileNotFoundError"

NoPath == Path(None, None)

\* a file-system access of the resolver
IoExists(path) == [call |-> "exists", path |-> path]
IoGlob(dir)    == [call |-> "glob", path |-> Path(dir, <<>>)]

ResolveError(status, exc, msg, io) ==
    [status |-> status, exc |-> exc, msg |-> msg, before |-> NoPath,
     after |-> NoPath, matched |-> None, io |-> io]

Resolved(before, after, matched, io) ==
    [status |-> "ok", exc |-> "None", msg |-> "", before |-> before,
     after |-> after, matched |-> matched, io |-> io]

\* the branch taken when run_id is given (bench_compare.py:48-68)
CheckByRunId_NoMatchCheck(files, run_id, before, after, pb, pa) ==
    IF ~Exists(files, before) \/ ~Exists(files, after)
    THEN ResolveError("NotFound", S_FileNotFoundError, "file not found",
                      <<IoExists(before)>>)
    ELSE IF pb.phase # S_before \/ pa.phase # S_after
    THEN ResolveError("InvalidFormat", S_ValueError, "Expected a phase suffix",
                      <<IoExists(before), IoExists(after)>>)
    ELSE Resolved(before, after, run_id, <<IoExists(before), IoExists(after)>>)

CheckByRunId(files, run_id, before, after, pb, pa) ==
    IF ~Exists(files, before)
    THEN ResolveError("NotFound", S_FileNotFoundError,
                      "before file not found for run_id", <<IoExists(before)>>)
    ELSE IF ~Exists(files, after)
    THEN ResolveError("NotFound", S_FileNotFoundError,
                      "after file not found for run_id",
                      <<IoExists(before), IoExists(after)>>)
    ELSE IF pb.phase # S_before
    THEN ResolveError("InvalidFormat", S_ValueError, "Expected a *_before.csv file",
                      <<IoExists(before), IoExists(after)>>)
    ELSE IF pa.phase # S_after
    THEN ResolveError("InvalidFormat", S_ValueError, "Expected a *_after.csv file",
                      <<IoExists(before), IoExists(after)>>)
    ELSE IF pb.run_id # run_id \/ pa.run_id # run_id
    THEN ResolveError("Mismatch", S_ValueError,
                      "Provided files do not match the requested --run-id",
                      <<IoExists(before), IoExists(after)>>)
    ELSE Resolved(before, after, run_id, <<IoExists(before), IoExists(after)>>)

\* explicit files win over the derived path, slot by slot
SlotPath_Derived(out_dir, run_id, phase, file) ==
    Path(out_dir, CsvName(run_id, phase))

SlotPath(out_dir, run_id, phase, file) ==
    IF file # <<>> THEN PathOf(file) ELSE Path(out_dir, CsvName(run_id, phase))

ResolveByRunId(files, out_dir, run_id, before_file, after_file) ==
    CheckByRunId(files, run_id,
                 SlotPath(out_dir, run_id, S_before, before_file),
                 SlotPath(out_dir, run_id, S_after, after_file),
                 _parse_report_name(SlotPath(out_dir, run_id, S_before, before_file)),
                 _parse_report_name(SlotPath(out_dir, run_id, S_after, after_file)))

\* the branch taken when a file is given without run_id (bench_compare.py:70-102)
ResolveByFiles_ExistsFirst(files, before_file, after_file, allow_mismatched_runs) ==
    LET before == PathOf(before_file)
        after  == PathOf(after_file)
    IN  IF before_file # <<>> /\ ~Exists(files, before)
        THEN ResolveError("NotFound", S_FileNotFoundError, "before file not found",
                          <<IoExists(before)>>)
        ELSE IF before_file = <<>> \/ after_file = <<>>
        THEN ResolveError("InvalidArgument", S_ValueError,
                          "Provide both --before-file and --after-file",
                          <<IoExists(before)>>)
        ELSE Resolved(before, after, None, <<IoExists(before)>>)

\* matched_run_id (bench_compare.py:101)
MatchedRunId_Before(pb, pa) == pb.run_id

MatchedRunId(pb, pa) == IF pb.run_id = pa.run_id THEN pb.run_id ELSE None

\* bench_compare.py:90-102: the strict checks, then the pair
PairOutcome_NoMismatch(before, after, pb, pa, allow_mismatched_runs) ==
    IF ~allow_mismatched_runs
       /\ (pb.run_id \in {None, <<>>} \/ pa.run_id \in {None, <<>>})
    THEN ResolveError("AmbiguousRunId", S_ValueError,
                      "Cannot infer run_id from file names",
                      <<IoExists(before), IoExists(after)>>)
    ELSE Resolved(before, after, MatchedRunId(pb, pa),
                  <<IoExists(before), IoExists(after)>>)

PairOutcome(before, after, pb, pa, allow_mismatched_runs) ==
    IF ~allow_mismatched_runs
       /\ (pb.run_id \in {None, <<>>} \/ pa.run_id \in {None, <<>>})
    THEN ResolveError("AmbiguousRunId", S_ValueError,
                      "Cannot infer run_id from file names",
                      <<IoExists(before), IoExists(after)>>)
    ELSE IF ~allow_mismatched_runs /\ pb.run_id # pa.run_id
    THEN ResolveError("Mismatch", S_ValueError,
                      "Mismatched run_id between before/after files",
                      <<IoExists(before), IoExists(after)>>)
    ELSE Resolved(before, after, MatchedRunId(pb, pa),
                  <<IoExists(before), IoExists(after)>>)

CheckByFiles_NoPhaseCheck(files, before, after, pb, pa, allow_mismatched_runs) ==
    IF ~Exists(files, before)
    THEN ResolveError("NotFound", S_FileNotFoundError, "before file not found",
                      <<IoExists(before)>>)
    ELSE IF ~Exists(files, after)
    THEN ResolveError("NotFound", S_FileNotFoundError, "after file not found",
                      <<IoExists(before), IoExists(after)>>)
    ELSE PairOutcome(before, after, pb, pa, allow_mismatched_runs)

CheckByFiles(files, before, after, pb, pa, allow_mismatched_runs) ==
    IF ~Exists(files, before)
    THEN ResolveError("NotFound", S_FileNotFoundError, "before file not found",
                      <<IoExists(before)>>)
    ELSE IF ~Exists(files, after)
    THEN ResolveError("NotFound", S_FileNotFoundError, "after file not found",
                      <<IoExists(before), IoExists(after)>>)
    ELSE IF pb.phase # S_before
    THEN ResolveError("InvalidFormat", S_ValueError, "Expected a *_before.csv file",
                      <<IoExists(before), IoExists(after)>>)
    ELSE IF pa.phase # S_after
    THEN ResolveError("InvalidFormat", S_ValueError, "Expected a *_after.csv file",
                      <<IoExists(before), IoExists(after)>>)
    ELSE PairOutcome(before, after, pb, pa, allow_mismatched_runs)

ResolveByFiles(files, before_file, after_file, allow_mismatched_runs) ==
    IF before_file = <<>> \/ after_file = <<>>
    THEN ResolveError("InvalidArgument", S_ValueError,
                      "Provide both --before-file and --after-file", <<>>)
    ELSE CheckByFiles(files, PathOf(before_file), PathOf(after_file),
                      _parse_report_name(PathOf(before_file)),
                      _parse_report_name(PathOf(after_file)),
                      allow_mismatched_runs)

\* the branch taken when nothing is given (bench_compare.py:104-109)
AutoPair(out_dir, auto_run_id) ==
    IF auto_run_id = None
    THEN ResolveError("NotFound", S_FileNotFoundError,
                      "No complete benchmark run found", <<IoGlob(out_dir)>>)
    ELSE Resolved(Path(out_dir, CsvName(auto_run_id, S_before)),
                  Path(out_dir, CsvName(auto_run_id, S_after)),
                  auto_run_id, <<IoGlob(out_dir)>>)

ResolveAuto(files, out_dir) == AutoPair(out_dir, _latest_complete_run(files, out_dir))

\* _resolve_compare_inputs(out_dir, run_id, before_file, after_file,
\*                         allow_mismatched_runs): the first branch that applies
_resolve_compare_inputs(files, out_dir, run_id, before_file, after_file, allow) ==
    IF Strip(run_id) # <<>>
    THEN ResolveByRunId(files, out_dir, Strip(run_id), Strip(before_file),
                        Strip(after_file))
    ELSE IF Strip(before_file) # <<>> \/ Strip(after_file) # <<>>
    THEN ResolveByFiles(files, Strip(before_file), Strip(after_file), allow)
    ELSE ResolveAuto(files, out_dir)

-----------------------------------------------------------------------------
(* bench_compare.py: the comparator *)

\* df.groupby("query")["elapsed_ms"].median() as query -> twice the median
Medians(rows) == [q \in QueriesOf(rows) |-> Median2(ElapsedOf(rows, q))]

JoinKeys_Inner(b, a) == GroupKeys(DOMAIN b \cap DOMAIN a)

\* the index of pd.concat([b, a], axis=1): the union of the two indexes,
\* those of b first
JoinKeys(b, a) == GroupKeys(DOMAIN b) \o GroupKeys(DOMAIN a \ DOMAIN b)

\* a column of the concatenated frame: nan where the side has no such query
Cell(m, q) == IF q \in DOMAIN m THEN Fin(m[q]) ELSE NaN

\* round(x / y, 2) in hundredths, for floats x, y >= 0
Speedup_Inverse(x, y) ==
    IF x.k = "nan" \/ y.k = "nan" THEN NaN
    ELSE IF x.v = 0 THEN (IF y.v = 0 THEN NaN ELSE PosInf)
    ELSE Fin(RoundHalfEven(100 * y.v, x.v))

Speedup(x, y) ==
    IF x.k = "nan" \/ y.k = "nan" THEN NaN
    ELSE IF y.v = 0 THEN (IF x.v = 0 THEN NaN ELSE PosInf)
    ELSE Fin(RoundHalfEven(100 * x.v, y.v))

\* round((1 - y / x) * 100, 1) in tenths, for floats x, y >= 0
Improvement(x, y) ==
    IF x.k = "nan" \/ y.k = "nan" THEN NaN
    ELSE IF x.v = 0 THEN (IF y.v = 0 THEN NaN ELSE NegInf)
    ELSE Fin(RoundHalfEven(1000 * (x.v - y.v), x.v))

\* x sorts before y under sort_values(ascending=False): nan goes last
Above(x, y) ==
    /\ x.k # "nan"
    /\ \/ y.k = "nan"
       \/ x.k = "inf" /\ y.k # "inf"
       \/ x.k = "fin" /\ y.k = "ninf"
       \/ x.k = "fin" /\ y.k = "fin" /\ x.v > y.v

\* out.sort_values("speedup_x", ascending=False): rows that tie keep their
\* order
RECURSIVE SortDesc(_)
SortDesc(rs) ==
    IF rs = <<>> THEN <<>>
    ELSE LET best == {i \in 1..Len(rs) :
                        \A j \in 1..Len(rs) : ~Above(rs[j].speedup_x, rs[i].speedup_x)}
             top  == CHOOSE i \in best : \A j \in best : i <= j
             rest == [k \in 1..(Len(rs) - 1) |-> IF k < top THEN rs[k] ELSE rs[k + 1]]
         IN  <<rs[top]>> \o SortDesc(rest)

\* f"{x:.1f}" of a median (half-microseconds), in tenths of a millisecond
FormatMs(x) == IF x.k = "fin" THEN Fin(RoundHalfEven(x.v, 200)) ELSE x

\* the rows of the report table, in the order written
ReportRows(rows_b, rows_a) ==
    LET b    == Medians(rows_b)
        a    == Medians(rows_a)
        keys == JoinKeys(b, a)
        out  == [i \in 1..Len(keys) |->
                    [query |-> keys[i],
                     before_ms |-> FormatMs(Cell(b, keys[i])),
                     after_ms |-> FormatMs(Cell(a, keys[i])),
                     speedup_x |-> Speedup(Cell(b, keys[i]), Cell(a, keys[i])),
                     improvement_pct |->
                        Improvement(Cell(b, keys[i]), Cell(a, keys[i]))]]
    IN  SortDesc(out)

\* stamp = matched_run_id or datetime.utcnow().strftime("%Y%m%d_%H%M%S_%f")
Stamp_Clock(matched_run_id, t) == _generate_run_id(t)

Stamp(matched_run_id, t) == StrOr(matched_run_id, _generate_run_id(t))

\* the name of the report (bench_compare.py:147)
SpeedupName_Csv(stamp) == S_benchmarks \o stamp \o S_after_csv

SpeedupName(stamp) == S_benchmarks \o S_speedup \o stamp \o S_md

CompareFailure(files, r, status, exc, msg) ==
    [status |-> status, exc |-> exc, msg |-> msg, before |-> r.before,
     after |-> r.after, matched |-> r.matched, io |-> r.io,
     report |-> NoPath, files |-> files]

\* bench_compare.py:135-163, r being what the resolver returned
CompareResolved(files, t, out_dir, r) ==
    IF r.status # "ok" THEN CompareFailure(files, r, r.status, r.exc, r.msg)
    ELSE IF files[r.before].kind # "csv" \/ files[r.after].kind # "csv"
    THEN CompareFailure(files, r, "ReadError", "Exception",
                        "cannot read the measurement table")
    ELSE IF ~Exists(files, Path(out_dir, <<>>))
    THEN \* md_path.write_text: the report directory does not exist
         CompareFailure(files, r, "NotFound", S_FileNotFoundError,
                        "No such file or directory")
    ELSE [status |-> "ok", exc |-> "None", msg |-> "", before |-> r.before,
          after |-> r.after, matched |-> r.matched, io |-> r.io,
          report |-> Path(out_dir, SpeedupName(Stamp(r.matched, t))),
          files |-> WriteFile(files, Path(out_dir, SpeedupName(Stamp(r.matched, t))),
                        [kind |-> "md",
                         run_label |-> StrOr(r.matched, S_mixed),
                         before_name |-> r.before.name,
                         after_name |-> r.after.name,
                         rows |-> ReportRows(files[r.before].rows,
                                             files[r.after].rows)])]

\* compare_latest_reports(run_id, before_file, after_file,
\* allow_mismatched_runs) at clock reading t
compare_latest_reports(files, t, args) ==
    CompareResolved(files, t, OutDir,
        _resolve_compare_inputs(files, OutDir, args.run_id, args.before_file,
                                args.after_file, args.allow_mismatched_runs))

-----------------------------------------------------------------------------
(* cli.py: the bench-compare command *)

\* exit statuses: normal return, sys.exit(2) of the except clause,
\* argparse's parser.error(), an uncaught exception
ExitOk        == 0
ExitCompare   == 2
ExitUsage     == 2
ExitTraceback == 1

\* args = p.parse_args() fails: usage on stderr, no call
MainUsage(files) ==
    [called |-> FALSE, exit |-> ExitUsage, stderr |-> "usage",
     res |-> [status |-> "Usage", exc |-> "SystemExit", msg |-> "",
              before |-> NoPath, after |-> NoPath, matched |-> None, io |-> <<>>,
              report |-> NoPath, files |-> files]]

\* cli.py:140-150, r being the outcome of compare_latest_reports
MainAfterCompare(r) ==
    IF r.status = "ok"
    THEN [called |-> TRUE, exit |-> ExitOk, stderr |-> "", res |-> r]
    ELSE IF r.exc \in {S_FileNotFoundError, S_ValueError}
    THEN [called |-> TRUE, exit |-> ExitCompare, stderr |-> r.msg, res |-> r]
    ELSE [called |-> TRUE, exit |-> ExitTraceback, stderr |-> "Traceback", res |-> r]

\* main() for `pipeline bench-compare ...`; argv.usage holds when the
\* arguments do not parse
MainBenchCompare(files, t, argv) ==
    IF argv.usage THEN MainUsage(files)
    ELSE MainAfterCompare(compare_latest_reports(files, t, argv))

(* ingest.py *)

S_yellow == <<"y", "e", "l", "l", "o", "w">>

\* data/raw
RawDir == <<"d", "a", "t", "a", "/", "r", "a", "w">>

RawDirPath == Path(RawDir, <<>>)

ZonePath == Path(RawDir, <<"t", "a", "x", "i", "_", "z", "o", "n", "e", "_", "l", "o", "o", "k", "u", "p", ".", "c", "s", "v">>)

\* yellow_tripdata_<month>.parquet under data/raw
ParquetPath(month) ==
    Path(RawDir, <<"y", "e", "l", "l", "o", "w", "_", "t", "r", "i", "p", "d", "a", "t", "a", "_">> \o month \o <<".", "p", "a", "r", "q", "u", "e", "t">>)

M1 == <<"2", "0", "2", "4", "-", "0", "1">>
M2 == <<"2", "0", "2", "4", "-", "0", "2">>

\* what the TLC server publishes: rows of every month's parquet file, and of
\* the zone lookup
Remote == (M1 :> 2) @@ (M2 :> 1)

ZoneRows == 2

\* _download: the directory is made, then the body is written unless the
\* request fails
_download(files, dest, content, ok) ==
    IF ok THEN WriteFile(Mkdir(files, RawDirPath), dest, content)
    ELSE Mkdir(files, RawDirPath)

\* rows of a batch in raw.yellow_trips
BatchRows(yellow, batch_id) ==
    Cardinality({i \in 1..Len(yellow) : yellow[i] = batch_id})

\* SELECT 1 FROM raw.yellow_trips WHERE batch_id = %s LIMIT 1
_batch_exists_in_raw_Never(yellow, batch_id) == FALSE

_batch_exists_in_raw(yellow, batch_id) ==
    \E i \in 1..Len(yellow) : yellow[i] = batch_id

\* DELETE FROM raw.yellow_trips WHERE batch_id = %s
_delete_raw_batch(yellow, batch_id) ==
    SelectSeq(yellow, LAMBDA b : b # batch_id)

\* COPY raw.yellow_trips FROM STDIN: every row of the file, tagged batch_id
_load_yellow_parquet(yellow, rows, batch_id) ==
    yellow \o [i \in 1..rows |-> batch_id]

\* an ingest in progress: the committed database, the files, what was done
Ingesting(d, files) == [status |-> "ok", db |-> d, files |-> files, log |-> <<>>]

IngestEvent(ev, batch_id) == [ev |-> ev, batch_id |-> batch_id]

\* lines 220-228: delete and commit, or roll back and raise
DeleteStep(month, env, st) ==
    IF env.fail = "delete" /\ env.at = month
    THEN [st EXCEPT !.status = "DeleteError"]
    ELSE [st EXCEPT !.db.yellow = _delete_raw_batch(@, month),
                    !.log = Append(@, IngestEvent("delete", month))]

\* lines 230-243: download, then load and commit, or roll back and raise
LoadStep(month, env, st) ==
    IF st.status # "ok" THEN st
    ELSE IF month \notin DOMAIN Remote \/ (env.fail = "download" /\ env.at = month)
    THEN [st EXCEPT !.status = "DownloadError",
                    !.files = _download(@, ParquetPath(month), <<>>, FALSE)]
    ELSE IF env.fail = "load" /\ env.at = month
    THEN [st EXCEPT !.status = "LoadError",
                    !.files = _download(@, ParquetPath(month),
                                        [kind |-> "parquet", rows |-> Remote[month]], TRUE)]
    ELSE [st EXCEPT !.db.yellow = _load_yellow_parquet(@, Remote[month], month),
                    !.files = _download(@, ParquetPath(month),
                                        [kind |-> "parquet", rows |-> Remote[month]], TRUE),
                    !.log = Append(@, IngestEvent("load", month))]

\* one turn of the loop of lines 204-243, month already stripped
IngestMonth(month, replace_batch, env, st) ==
    IF month = <<>> THEN st
    ELSE IF _batch_exists_in_raw(st.db.yellow, month) /\ ~replace_batch
    THEN [st EXCEPT !.log = Append(@, IngestEvent("skip", month))]
    ELSE IF _batch_exists_in_raw(st.db.yellow, month) /\ replace_batch
    THEN LoadStep(month, env, DeleteStep(month, env, st))
    ELSE LoadStep(month, env, st)

RECURSIVE IngestMonths(_, _, _, _)
IngestMonths(months, replace_batch, env, st) ==
    IF months = <<>> \/ st.status # "ok" THEN st
    ELSE IngestMonths(Tail(months), replace_batch, env,
                      IngestMonth(Strip(Head(months)), replace_batch, env, st))

IngestFailure(d, files, status) ==
    [status |-> status, db |-> d, files |-> files, log |-> <<>>]

\* ingest_all(months, dataset, replace_batch) on database d and files; env.fail
\* names the step that fails ("none" for none) and env.at the month, file or
\* table it fails on
ingest_all(d, files, months, dataset, replace_batch, env) ==
    IF dataset # S_yellow THEN IngestFailure(d, files, "ValueError")
    ELSE IF env.fail = "download" /\ env.at = ZonePath.name
    THEN IngestFailure(d, _download(files, ZonePath, <<>>, FALSE), "DownloadError")
    ELSE IF env.fail = "connect"
    THEN IngestFailure(d, _download(files, ZonePath, [kind |-> "zones"], TRUE),
                       "ConnectionError")
    ELSE IF env.fail = "no_table"
    THEN IngestFailure(d, _download(files, ZonePath, [kind |-> "zones"], TRUE),
                       "RuntimeError")
    ELSE IF env.fail = "zone_columns"
    THEN IngestFailure(d, _download(files, ZonePath, [kind |-> "zones"], TRUE),
                       "ValueError")
    ELSE IngestMonths(months, replace_batch, env,
                      Ingesting([d EXCEPT !.zones = ZoneRows],
                                _download(files, ZonePath, [kind |-> "zones"], TRUE)))

-----------------------------------------------------------------------------
(* The state machine: calls of the program's operations *)

NoFiles == [p \in {} |-> [kind |-> "dir"]]

TimePoints == [sec : 0..MaxSec, usec : 0..MaxUsec]

Later(t, u) == u.sec > t.sec \/ (u.sec = t.sec /\ u.usec > t.usec)

\* the processes that may run the harness at the same time
Procs == {1, 2}

Idle(n) == [pc |-> "idle", runs |-> n]

\* the database after DB init: raw.yellow_trips holds no row (one batch_id per
\* row), raw.taxi_zone_lookup has not been loaded
EmptyDb == [yellow |-> <<>>, zones |-> 0]

Init ==
    /\ fs = NoFiles
    /\ now = [sec |-> 0, usec |-> 0]
    /\ last = [op |-> "none"]
    /\ inv = [p \in Procs |-> Idle(0)]
    /\ db = EmptyDb

\* time passes between calls
Tick ==
    /\ \E t \in TimePoints : Later(now, t) /\ now' = t
    /\ UNCHANGED <<fs, last, inv, db>>

AfterRunBenchmarks(args, env, r) ==
    /\ fs' = r.files
    /\ last' = [op |-> "run_benchmarks", args |-> args,
                status |-> r.status, exc |-> r.exc, ret |-> r.ret,
                run_id |-> r.run_id, phase |-> r.phase,
                executed |-> r.executed, stdout |-> r.stdout, io |-> r.io,
                \* what the store did to the call
                connFail |-> env.connFail, failAt |-> env.failAt,
                broken |-> env.store.broken]
    /\ UNCHANGED <<now, inv, db>>

\* one call of run_benchmarks, from entry to return or raise
RunBenchmarks(args, env) ==
    AfterRunBenchmarks(args, env, run_benchmarks(fs, now, args, env))

(* Inputs *)

R1 == <<"r", "1">>
R2 == <<"r", "2">>

QuerySet == {QUERIES[i] : i \in 1..Len(QUERIES)}

\* every iteration of a query takes the same time
Steady(f) == [q \in QuerySet |-> [i \in 1..MaxIters |-> f[q]]]

\* perf_counter differences are taken in ns
NsPerMs == 1000000

\* 100 ms, and 49.9996 ms, which is recorded as 50.000
Slow == 100 * NsPerMs
Fast == (50 * NsPerMs) - 400

Store0 ==
    [broken |-> {}, counts |-> [r \in RelationSet |-> 0],
     batches |-> [r \in RelationSet |-> {}]]

Sha1 == <<"a", "1">>
Sha2 == <<"b", "2">>

Env0 ==
    [connFail |-> FALSE, failAt |-> 0, dt |-> Steady([q \in QuerySet |-> Slow]),
     git |-> Sha1 \o <<" ">>, store |-> Store0]

EnvWith(connFail, failAt, git) ==
    [Env0 EXCEPT !.connFail = connFail, !.failAt = failAt, !.git = git]

BenchArgs(itersSet, warmupSet, phaseSet, runIdSet) ==
    [iters : itersSet, warmup : warmupSet, phase : phaseSet, run_id : runIdSet,
     batch_ids : {None}]

\* The harness, every iters and warmup: one run id, a store that works or
\* fails at the first execution
NextBench ==
    \E args \in BenchArgs(0..MaxIters, 0..MaxWarmup, {S_before, S_after}, {R1}),
       env \in {Env0, EnvWith(FALSE, 1, None)} :
        RunBenchmarks(args, env)

Spec == Init /\ [][NextBench]_vars

\* The metadata record over time: phases as the caller may write them, the
\* revisions git may report, calls at different clock readings
PhaseInputs == {S_before, S_after, <<" ", "A">> \o Tail(S_after), <<"x">>}

NextMeta ==
    \/ Tick
    \/ \E args \in BenchArgs({1}, {0}, PhaseInputs, {R1, <<" ", "r", "1">>}),
          env \in {EnvWith(FALSE, 0, g) : g \in {None, Sha1 \o <<" ">>, Sha2}} :
        RunBenchmarks(args, env)

SpecMeta == Init /\ [][NextMeta]_vars

\* a store on which counting the relations of `broken` fails
StoreWith(broken) == [Store0 EXCEPT !.broken = broken]

\* The harness on a store that fails: the connection, or any one execution of
\* the plan (0 for none), or the count of a relation
NextFail ==
    \/ \E args \in BenchArgs(1..MaxIters, 0..MaxWarmup, {S_before, S_after}, {R1}),
          failAt \in 0..(NumQueries * (MaxIters + MaxWarmup)), connFail \in BOOLEAN :
        RunBenchmarks(args, EnvWith(connFail, failAt, Sha1))
    \/ \E args \in BenchArgs({1}, {0}, {S_before, S_after}, {R1}),
          broken \in {{}, {Relations[1]}, {Relations[3]}, {Relations[2], Relations[6]},
                      RelationSet} :
        RunBenchmarks(args, [Env0 EXCEPT !.store = StoreWith(broken)])

SpecFail == Init /\ [][NextFail]_vars

\* one call of _pct
PctCall(values, pct) ==
    /\ last' = [op |-> "_pct", values |-> values, pct |-> pct,
                result |-> _pct(values, pct)]
    /\ UNCHANGED <<fs, now, inv, db>>

\* samples of up to MaxSample timings, in any order, with repetitions
SampleValues == {10, 20, 30, 40}

Samples == UNION {[1..n -> SampleValues] : n \in 0..MaxSample}

\* the percentiles the harness asks for: the median and p95
NextPct == \E values \in Samples, pct \in {50, 95} : PctCall(values, pct)

SpecPct == Init /\ [][NextPct]_vars

\* the state after main() has ended with outcome m
AfterBenchCompare(argv, m) ==
    /\ fs' = m.res.files
    /\ last' = [op |-> "bench-compare", argv |-> argv, called |-> m.called,
                exit |-> m.exit, stderr |-> m.stderr,
                status |-> m.res.status, exc |-> m.res.exc,
                before |-> m.res.before, after |-> m.res.after,
                matched |-> m.res.matched, io |-> m.res.io,
                report |-> m.res.report, at |-> now,
                \* the clock reading of the call before, when that was the
                \* same command and it succeeded
                rerun_of |-> IF /\ last.op = "bench-compare"
                                /\ last.status = "ok"
                                /\ last.argv = argv
                             THEN <<last.at>> ELSE <<>>]
    /\ UNCHANGED <<now, inv, db>>

\* one run of `pipeline bench-compare`, from the command line to the exit
BenchCompare(argv) == AfterBenchCompare(argv, MainBenchCompare(fs, now, argv))

\* the caller puts a measurement table of their own at a path that
\* --before-file / --after-file can name
PlaceFile(path, rows) ==
    /\ fs' = WriteFile(IF path.dir = OutDir THEN Mkdir(fs, OutDirPath) ELSE fs,
                       path, [kind |-> "csv", rows |-> rows])
    /\ last' = [op |-> "place", path |-> path]
    /\ UNCHANGED <<now, inv, db>>

CompareArgv(runIds, beforeFiles, afterFiles, allows) ==
    [usage : {FALSE}, run_id : runIds, before_file : beforeFiles,
     after_file : afterFiles, allow_mismatched_runs : allows]

UsageArgv ==
    [usage |-> TRUE, run_id |-> <<>>, before_file |-> <<>>, after_file |-> <<>>,
     allow_mismatched_runs |-> FALSE]

\* the path string of a file of the report directory
InReports(name) == OutDir \o <<"/">> \o name

\* a measurement table as the harness writes it for (run_id, phase)
TableOf(run_id, phase, f) ==
    AllRows([dt |-> Steady(f)], run_id, phase, QUERIES, 0, 1)

AfterResolve(args, r) ==
    /\ last' = [op |-> "resolve", args |-> args, status |-> r.status,
                exc |-> r.exc, msg |-> r.msg, before |-> r.before,
                after |-> r.after, matched |-> r.matched, io |-> r.io]
    /\ UNCHANGED <<fs, now, inv, db>>

\* one call of _resolve_compare_inputs on the report directory
Resolve(args) ==
    AfterResolve(args,
        _resolve_compare_inputs(fs, OutDir, args.run_id, args.before_file,
                                args.after_file, args.allow_mismatched_runs))

ResolveArgs(runIds, beforeFiles, afterFiles, allows) ==
    [run_id : runIds, before_file : beforeFiles, after_file : afterFiles,
     allow_mismatched_runs : allows]

\* The resolver: runs r1 and r2 as the harness leaves them, a copy of r2's
\* "before" table in the working directory, every way to name run and files
NextResolve ==
    \/ \E args \in BenchArgs({1}, {0}, {S_before, S_after}, {R1, R2}) :
        RunBenchmarks(args, Env0)
    \/ PlaceFile(PathOf(CsvName(R2, S_before)),
                 TableOf(R2, S_before, [q \in QuerySet |-> Slow]))
    \/ \E args \in ResolveArgs({<<>>, <<" ">>, R1},
                               {<<>>, CsvName(R2, S_before),
                                InReports(CsvName(R1, S_after))},
                               {<<>>, InReports(CsvName(R1, S_after)),
                                InReports(CsvName(R2, S_after))},
                               BOOLEAN) :
        Resolve(args)

SpecResolve == Init /\ [][NextResolve]_vars

\* measurement tables of the caller's own: one without the second query, one
\* of zero latencies
Row(q, i, ms) ==
    [run_id |-> R1, phase |-> S_after, query |-> q, iter |-> i,
     elapsed_ms |-> ms * 1000]

TablePartial == <<Row(Q1, 1, 50), Row(Q1, 2, 100)>>
TableZero    == <<Row(Q1, 1, 0), Row(Q2, 1, 0)>>

\* The comparator: run r1 measured under every mix of slow and fast queries,
\* or with the caller's own "after" table
NextCompare ==
    \/ \E args \in BenchArgs({1}, {0}, {S_before, S_after}, {R1}),
          f \in [QuerySet -> {Slow, Fast}] :
        RunBenchmarks(args, [Env0 EXCEPT !.dt = Steady(f)])
    \/ \E rows \in {TablePartial, TableZero} :
        PlaceFile(PathOf(CsvName(R1, S_after)), rows)
    \/ \E argv \in CompareArgv({R1}, {<<>>}, {<<>>, CsvName(R1, S_after)}, {FALSE}) :
        BenchCompare(argv)

SpecCompare == Init /\ [][NextCompare]_vars

\* The command line over time: run r1, the command given well and badly, at
\* different clock readings
NextCli ==
    \/ Tick
    \/ \E args \in BenchArgs({1}, {0}, {S_before, S_after}, {R1}) :
        RunBenchmarks(args, Env0)
    \/ \E argv \in CompareArgv({<<>>, R1, R2},
                               {<<>>, InReports(CsvName(R1, S_before))},
                               {<<>>, InReports(CsvName(R1, S_before)),
                                InReports(CsvName(R1, S_after))},
                               {FALSE}) \cup {UsageArgv} :
        BenchCompare(argv)

SpecCli == Init /\ [][NextCli]_vars

\* names a caller may give to files of the report directory: the tables of
\* run r1, the "after" table of run r2, and two names that end in a phase
\* token with nothing where the run_id goes
PairNames ==
    {CsvName(R1, S_before), CsvName(R1, S_after), CsvName(R2, S_after),
     CsvName(<<>>, S_before), CsvName(<<>>, S_after)}

\* The resolver on files that are named by hand: every pair of the names as
\* --before-file / --after-file, strict or not, or nothing (auto-discovery),
\* and the comparison of r1's "before" with either "after"
NextPair ==
    \/ \E name \in PairNames :
        PlaceFile(InOutDir(name), TableOf(R1, S_before, [q \in QuerySet |-> Slow]))
    \/ \E args \in ResolveArgs({<<>>},
                               {<<>>} \cup {InReports(CsvName(r, S_before)) :
                                                r \in {R1, <<>>}},
                               {<<>>} \cup {InReports(CsvName(r, S_after)) :
                                                r \in {R1, R2, <<>>}},
                               BOOLEAN) :
        Resolve(args)
    \/ \E argv \in CompareArgv({<<>>}, {InReports(CsvName(R1, S_before))},
                               {InReports(CsvName(r, S_after)) : r \in {R1, R2}},
                               {TRUE}) :
        BenchCompare(argv)

SpecPair == Init /\ [][NextPair]_vars



(* Invocations of the harness that interleave: one action per step that *)
(* reads or writes a file *)

\* the reads and writes of the metadata file so far, in order
Log == IF last.op = "step" THEN last.log ELSE <<>>

Logged(p, ev) ==
    [op |-> "step",
     log |-> Append(Log, [proc |-> p, ev |-> ev, phase |-> inv[p].m.phase])]

\* the record merged at benchmarks.py:278-304 is the one line 277 loaded
MetaAtWrite_Reread(files, path, loaded) == _load_meta(files, path)

MetaAtWrite(files, path, loaded) == loaded

\* benchmarks.py:184-249: the call is entered, the queries are measured; a call
\* that raises ends here
Begin(p, args, env) ==
    /\ inv[p].pc = "idle"
    /\ inv[p].runs < MaxRuns
    /\ IF run_benchmarks(fs, now, args, env).status # "ok"
       THEN AfterRunBenchmarks(args, env, run_benchmarks(fs, now, args, env))
       ELSE /\ fs' = Mkdir(fs, OutDirPath)
            /\ inv' = [inv EXCEPT ![p] =
                        [pc |-> "to_csv", runs |-> inv[p].runs + 1,
                         m |-> Measured(now, args, env), git |-> env.git]]
            /\ UNCHANGED <<now, last, db>>

\* benchmarks.py:251-252
WriteCsv(p) ==
    /\ inv[p].pc = "to_csv"
    /\ fs' = WriteFile(fs, inv[p].m.csv_path, CsvFile(inv[p].m))
    /\ inv' = [inv EXCEPT ![p].pc = "to_md"]
    /\ UNCHANGED <<now, last, db>>

\* benchmarks.py:254-274
WriteMd(p) ==
    /\ inv[p].pc = "to_md"
    /\ fs' = WriteFile(fs, inv[p].m.md_path, MdFile(inv[p].m))
    /\ inv' = [inv EXCEPT ![p].pc = "load"]
    /\ UNCHANGED <<now, last, db>>

\* benchmarks.py:276-277: git_sha = _git_sha(); meta = _load_meta(meta_path)
LoadMeta(p) ==
    /\ inv[p].pc = "load"
    /\ inv' = [inv EXCEPT ![p] =
                [pc |-> "write", runs |-> inv[p].runs, m |-> inv[p].m,
                 git_sha |-> _git_sha(inv[p].git),
                 meta |-> _load_meta(fs, inv[p].m.meta_path)]]
    /\ last' = Logged(p, "load")
    /\ UNCHANGED <<fs, now, db>>

\* benchmarks.py:278-312: the merge in memory, _write_meta, the return
WriteMeta(p) ==
    /\ inv[p].pc = "write"
    /\ fs' = WriteFile(fs, inv[p].m.meta_path,
                MetaFile(MetaAtWrite(fs, inv[p].m.meta_path, inv[p].meta),
                         inv[p].git_sha, inv[p].m))
    /\ inv' = [inv EXCEPT ![p].pc = "idle"]
    /\ last' = Logged(p, "write")
    /\ UNCHANGED <<now, db>>

\* Two processes, MaxRuns invocations each for run r1, in every interleaving
NextRace ==
    \/ \E p \in Procs, args \in BenchArgs({1}, {0}, {S_before, S_after}, {R1}) :
        Begin(p, args, Env0)
    \/ \E p \in Procs : WriteCsv(p)
    \/ \E p \in Procs : WriteMd(p)
    \/ \E p \in Procs : LoadMeta(p)
    \/ \E p \in Procs : WriteMeta(p)

SpecRace == Init /\ [][NextRace]_vars

(* Generated run ids *)

Day == SecPerDay

\* Clock readings around every place where a field of the run id rolls over:
\* the microsecond, the second, the minute, the hour, the day, the month and
\* the year (a leap year).
ClockReadings ==
    {[sec |-> 0, usec |-> 0], [sec |-> 0, usec |-> 9], [sec |-> 0, usec |-> 10],
     [sec |-> 0, usec |-> 999999],
     [sec |-> 9, usec |-> 10], [sec |-> 10, usec |-> 9],
     [sec |-> 59, usec |-> 999999], [sec |-> 60, usec |-> 0],
     [sec |-> 3599, usec |-> 999999], [sec |-> 3600, usec |-> 0],
     [sec |-> Day - 1, usec |-> 999999], [sec |-> Day, usec |-> 0],
     [sec |-> 31 * Day - 1, usec |-> 999999], [sec |-> 31 * Day, usec |-> 0],
     [sec |-> 366 * Day - 1, usec |-> 999999], [sec |-> 366 * Day, usec |-> 0]}

\* the clock moves on to a later reading
Advance ==
    /\ \E t \in ClockReadings : Later(now, t) /\ now' = t
    /\ UNCHANGED <<fs, last, inv, db>>

\* _generate_run_id now and at a later reading
GenerateRunIds(t) ==
    /\ last' = [op |-> "_generate_run_id", t1 |-> now, t2 |-> t,
                id1 |-> _generate_run_id(now), id2 |-> _generate_run_id(t)]
    /\ UNCHANGED <<fs, now, inv, db>>

ReportsOnDisk == Cardinality({p \in DOMAIN fs : fs[p].kind = "csv"})

\* the run ids a caller may give: none, blank, or r1 with spaces around it
RunIdInputs == {None, <<>>, <<" ">>, R1, <<" ">> \o R1 \o <<" ">>}

NextRunId ==
    \/ Advance
    \/ \E t \in ClockReadings : Later(now, t) /\ GenerateRunIds(t)
    \/ \E args \in BenchArgs({1}, {0}, {S_before}, RunIdInputs) :
        ReportsOnDisk < MaxReports /\ RunBenchmarks(args, Env0)

SpecRunId == Init /\ [][NextRunId]_vars

(* Ingest *)

AfterIngest(months, dataset, replace_batch, env, r) ==
    /\ db' = r.db
    /\ fs' = r.files
    /\ last' = [op |-> "ingest_all", months |-> months, dataset |-> dataset,
                replace_batch |-> replace_batch, env |-> env,
                status |-> r.status, log |-> r.log]
    /\ UNCHANGED <<now, inv>>

Ingest(months, dataset, replace_batch, env) ==
    AfterIngest(months, dataset, replace_batch, env,
                ingest_all(db, fs, months, dataset, replace_batch, env))

Months == {M1, M2}

\* the month lists a caller gives: empty, one month, both in either order, a
\* month twice, months with blanks around them and a blank entry
MonthLists ==
    {<<>>, <<M1>>, <<M2>>, <<M1, M2>>, <<M2, M1>>, <<M1, M1>>,
     <<<<" ">> \o M1, <<" ">>, M2 \o <<" ">>>>}

\* no failure, or one step that fails; a table is missing only while empty
IngestEnvs ==
    {[fail |-> "none", at |-> None],
     [fail |-> "download", at |-> ZonePath.name],
     [fail |-> "connect", at |-> None],
     [fail |-> "zone_columns", at |-> None]}
    \cup [fail : {"download", "load", "delete"}, at : Months]

NextIngest ==
    \/ \E months \in MonthLists, replace_batch \in BOOLEAN, env \in IngestEnvs :
        Ingest(months, S_yellow, replace_batch, env)
    \/ \E months \in MonthLists :
        Ingest(months, <<"g", "r", "e", "e", "n">>, FALSE, [fail |-> "none", at |-> None])
    \/ \E months \in MonthLists :
        db = EmptyDb /\ Ingest(months, S_yellow, FALSE, [fail |-> "no_table", at |-> None])

SpecIngest == Init /\ [][NextIngest]_vars

(* Run ids that look like parts of a report name *)

NameRunIds ==
    {R1, S_us, S_us \o S_before, R1 \o S_us \o S_after,
     R1 \o S_us \o S_before \o S_csv, R1 \o S_us \o S_before \o S_us \o S_after}

\* The harness under those run ids, given with or without blanks around
\* them, and the resolver asked for each of them by --run-id
NextNames ==
    \/ \E r \in NameRunIds, pad \in {<<>>, <<" ">>} :
        \E args \in BenchArgs({1}, {0}, {S_before, S_after}, {pad \o r \o pad}) :
            ReportsOnDisk < 2 * MaxReports /\ RunBenchmarks(args, Env0)
    \/ \E args \in ResolveArgs(NameRunIds, {<<>>}, {<<>>}, BOOLEAN) :
        Resolve(args)

SpecNames == Init /\ [][NextNames]_vars

-----------------------------------------------------------------------------
(* Claims: the timing harness *)

LastBench == last.op = "run_benchmarks"
LastBenchOk == LastBench /\ last.status = "ok"

\* C1: for all non-negative iters and warmup a call of run_benchmarks that the
\* store does not fail completes, and the CSV it wrote holds exactly `iters`
\* rows of every catalog query, numbered 1..iters (no warmup row), iters = 0
\* included.
C1_RowsPerQuery ==
    (LastBench /\ last.status # "ExecutionError") =>
        /\ last.status = "ok"
        /\ Exists(fs, last.ret)
        /\ \A q \in QuerySet :
            LET mine == {i \in 1..Len(fs[last.ret].rows) :
                            fs[last.ret].rows[i].query = q}
            IN  /\ Cardinality(mine) = last.args.iters
                /\ {fs[last.ret].rows[i].iter : i \in mine} = 1..last.args.iters

MetaPath(run_id) == Path(OutDir, MetaName(run_id))

\* C3: a completed call for run_id r and phase ph leaves a metadata record
\* that holds phases[ph], keeps every other phase entry that was there, and
\* keeps the created_at of the first write; so "before" then "after" under one
\* run_id gives a record with both phases and the first call's created_at.
C3_Step ==
    (last'.op = "run_benchmarks" /\ last'.status = "ok") =>
        LET mp == MetaPath(last'.run_id)
        IN  /\ Exists(fs', mp)
            /\ last'.phase \in DOMAIN fs'[mp].obj.phases
            /\ Exists(fs, mp) =>
                /\ fs'[mp].obj.created_at = fs[mp].obj.created_at
                /\ \A p \in DOMAIN fs[mp].obj.phases :
                    /\ p \in DOMAIN fs'[mp].obj.phases
                    /\ p # last'.phase =>
                        fs'[mp].obj.phases[p] = fs[mp].obj.phases[p]

C2_AsClaimed ==
    (last.op = "_pct" /\ last.values = <<10, 20, 30, 40>>) =>
        /\ last.pct = 50 => last.result = Fin(20)
        /\ last.pct = 95 => last.result = Fin(40)

\* C2 (amended): _pct returns nan for an empty sample and otherwise the
\* element at 0-based index k of the sorted sample, k the integer nearest to
\* (n-1)*p with a tie going to the even one; for [10,20,30,40] that is 30 for
\* p = 0.5 (index 2) and 40 for p = 0.95 (index 3).
C2_PctNearestRank ==
    last.op = "_pct" =>
        LET n == Len(last.values)
            Below(v) == Cardinality({i \in 1..n : last.values[i] < v})
            UpTo(v)  == Cardinality({i \in 1..n : last.values[i] <= v})
            Dist(k)  == IF 100 * k >= (n - 1) * last.pct
                        THEN 100 * k - (n - 1) * last.pct
                        ELSE (n - 1) * last.pct - 100 * k
        IN  /\ n = 0 => last.result = NaN
            /\ n > 0 =>
                /\ last.result.k = "fin"
                /\ \E k \in 0..(n - 1) :
                    /\ Dist(k) <= 50
                    /\ Dist(k) = 50 => k % 2 = 0
                    /\ Below(last.result.v) <= k
                    /\ UpTo(last.result.v) >= k + 1
            /\ last.values = <<10, 20, 30, 40>> =>
                /\ last.pct = 50 => last.result = Fin(30)
                /\ last.pct = 95 => last.result = Fin(40)

\* the median of the claim's sample, given out of order
C2_Witness ==
    /\ last.op = "_pct"
    /\ last.values = <<40, 10, 30, 20>>
    /\ last.pct = 50
    /\ last.result = Fin(30)

-----------------------------------------------------------------------------
(* Claims: the run resolver *)

LastResolve == last.op = "resolve"

\* what the call was given, as the resolver reads it
GivenRunId  == Strip(last.args.run_id)
GivenBefore == Strip(last.args.before_file)
GivenAfter  == Strip(last.args.after_file)

CsvHere(run_id, phase) == Exists(fs, InOutDir(CsvName(run_id, phase)))

\* the run ids that some file name of the report directory carries
NamedRunIds ==
    {ParseName(p.name).run_id : p \in {f \in DOMAIN fs : f.dir = OutDir}} \ {None}

\* those of them with both CSVs in the report directory
BothPhases == {id \in NamedRunIds : CsvHere(id, S_before) /\ CsvHere(id, S_after)}

\* C4: called with no run_id and no files, resolve returns the before/after
\* pair of the greatest (in str order) run_id among those with both CSVs in the
\* report directory; a run_id with one phase only never wins; with no complete
\* run the call fails NotFound.
C4_AutoPicksGreatestComplete ==
    (LastResolve /\ GivenRunId = <<>> /\ GivenBefore = <<>> /\ GivenAfter = <<>>) =>
        IF BothPhases = {}
        THEN last.status = "NotFound"
        ELSE /\ last.status = "ok"
             /\ last.matched \in BothPhases
             /\ \A id \in BothPhases : id = last.matched \/ StrLess(id, last.matched)
             /\ last.before = InOutDir(CsvName(last.matched, S_before))
             /\ last.after = InOutDir(CsvName(last.matched, S_after))

\* r1 and r2 both complete: r2 is selected
C4_Witness ==
    /\ LastResolve
    /\ last.args.run_id = <<>> /\ last.args.before_file = <<>>
    /\ last.args.after_file = <<>>
    /\ BothPhases = {R1, R2}
    /\ last.status = "ok"
    /\ last.matched = R2

\* C5: without a run_id and with exactly one of before_file / after_file,
\* resolve fails InvalidArgument ("Provide both --before-file and
\* --after-file") and has made no file-system access by then.
C5_OneFileIsInvalidArgument ==
    (LastResolve /\ GivenRunId = <<>> /\ (GivenBefore = <<>>) # (GivenAfter = <<>>)) =>
        /\ last.status = "InvalidArgument"
        /\ last.exc = S_ValueError
        /\ last.msg = "Provide both --before-file and --after-file"
        /\ last.io = <<>>

\* only --before-file given, naming a file that exists
C5_Witness ==
    /\ LastResolve
    /\ last.args.run_id = <<>>
    /\ last.args.before_file = CsvName(R2, S_before)
    /\ last.args.after_file = <<>>
    /\ Exists(fs, PathOf(CsvName(R2, S_before)))
    /\ last.status = "InvalidArgument"

\* the paths the explicit-run_id branch looks at
SlotBefore ==
    IF GivenBefore # <<>> THEN PathOf(GivenBefore)
    ELSE InOutDir(CsvName(GivenRunId, S_before))
SlotAfter ==
    IF GivenAfter # <<>> THEN PathOf(GivenAfter)
    ELSE InOutDir(CsvName(GivenRunId, S_after))

\* a file was supplied whose name carries another run_id than the requested
SuppliedOtherRun ==
    \/ GivenBefore # <<>> /\ ParseName(SlotBefore.name).run_id # GivenRunId
    \/ GivenAfter # <<>> /\ ParseName(SlotAfter.name).run_id # GivenRunId

\* C6: with a run_id, a supplied file whose parsed run_id differs from it is
\* never accepted, and once both files exist and carry their phase suffix the
\* error is Mismatch: resolve(run_id = r1, before_file =
\* benchmarks_r2_before.csv) fails Mismatch.
C6_RunIdMismatchRejected ==
    (LastResolve /\ GivenRunId # <<>> /\ SuppliedOtherRun) =>
        /\ last.status \in {"NotFound", "InvalidFormat", "Mismatch"}
        /\ (/\ Exists(fs, SlotBefore) /\ Exists(fs, SlotAfter)
            /\ ParseName(SlotBefore.name).phase = S_before
            /\ ParseName(SlotAfter.name).phase = S_after)
            => (last.status = "Mismatch" /\ last.exc = S_ValueError)

C6_Witness ==
    /\ LastResolve
    /\ last.args.run_id = R1
    /\ last.args.before_file = CsvName(R2, S_before)
    /\ last.args.after_file = <<>>
    /\ last.status = "Mismatch"

-----------------------------------------------------------------------------
(* Claims: the comparator and its command *)

LastCompare   == last.op = "bench-compare"
LastCompareOk == LastCompare /\ last.status = "ok"

\* what the last comparison read and wrote
BeforeMedians == Medians(fs[last.before].rows)
AfterMedians  == Medians(fs[last.after].rows)
ReportTable   == fs[last.report].rows

Dist(x, y) == IF x >= y THEN x - y ELSE y - x

\* C7: a query present in only one of the two measurement tables has no row
\* in the comparison report (the medians are joined with an inner join).
C7_InnerJoin ==
    LastCompareOk =>
        \A i \in 1..Len(ReportTable) :
            ReportTable[i].query \in DOMAIN BeforeMedians \cap DOMAIN AfterMedians

\* the medians of the worked example, in half-microseconds
ExampleBefore == (Q1 :> 200000) @@ (Q2 :> 100000)
ExampleAfter  == (Q1 :> 100000) @@ (Q2 :> 100000)

\* C8: every query of both tables has a row whose speedup_x is
\* before_median / after_median rounded to 2 places and whose improvement_pct
\* is (1 - after_median / before_median) * 100 rounded to 1 place; rows are
\* listed by descending speedup_x; before medians {q1: 100, q2: 50} and after
\* medians {q1: 50, q2: 50} give q1 (2.00, 50.0%) and then q2 (1.00, 0.0%).
C8_SpeedupRows ==
    LastCompareOk =>
        /\ \A q \in DOMAIN BeforeMedians \cap DOMAIN AfterMedians :
            \E i \in 1..Len(ReportTable) : ReportTable[i].query = q
        /\ \A i \in 1..Len(ReportTable) :
            LET q == ReportTable[i].query
                s == ReportTable[i].speedup_x
                p == ReportTable[i].improvement_pct
            IN  q \in DOMAIN BeforeMedians \cap DOMAIN AfterMedians =>
                    /\ AfterMedians[q] > 0 =>
                        /\ s.k = "fin"
                        /\ 2 * Dist(100 * BeforeMedians[q], s.v * AfterMedians[q])
                              <= AfterMedians[q]
                    /\ BeforeMedians[q] > 0 =>
                        /\ p.k = "fin"
                        /\ 2 * Dist(1000 * (BeforeMedians[q] - AfterMedians[q]),
                                    p.v * BeforeMedians[q])
                              <= BeforeMedians[q]
        /\ \A i, j \in 1..Len(ReportTable) :
            i < j => ~Above(ReportTable[j].speedup_x, ReportTable[i].speedup_x)
        /\ (BeforeMedians = ExampleBefore /\ AfterMedians = ExampleAfter) =>
            /\ Len(ReportTable) = 2
            /\ ReportTable[1].query = Q1
            /\ ReportTable[1].speedup_x = Fin(200)
            /\ ReportTable[1].improvement_pct = Fin(500)
            /\ ReportTable[2].query = Q2
            /\ ReportTable[2].speedup_x = Fin(100)
            /\ ReportTable[2].improvement_pct = Fin(0)

\* the worked example has been compared
C8_Witness ==
    /\ LastCompareOk
    /\ BeforeMedians = ExampleBefore
    /\ AfterMedians = ExampleAfter
    /\ ReportTable[1].query = Q1

\* C9: a comparison that follows a comparison of the same two unchanged files
\* under the same resolved run_id writes the same report path with the same
\* content, whatever the clock reads.
C9_Step ==
    (/\ LastCompareOk
     /\ last'.op = "bench-compare" /\ last'.status = "ok"
     /\ last'.before = last.before /\ last'.after = last.after
     /\ last'.matched = last.matched /\ last.matched # None
     /\ fs'[last.before] = fs[last.before] /\ fs'[last.after] = fs[last.after])
    => /\ last'.report = last.report
       /\ fs'[last'.report] = fs[last.report]

C9_Idempotent == [][C9_Step]_vars

\* the same command has succeeded twice, at two clock readings
C9_Witness ==
    /\ LastCompareOk
    /\ last.matched = R1
    /\ last.rerun_of # <<>>
    /\ last.rerun_of[1] # last.at
    /\ Exists(fs, last.report)

ResolutionFailures ==
    {"NotFound", "InvalidFormat", "Mismatch", "InvalidArgument", "AmbiguousRunId"}

\* C10: a resolution or comparison failure of bench-compare writes the error
\* to stderr and exits with a status that is neither 0 nor the status of an
\* argument-level failure of the parser.
C10_DistinctExitStatus ==
    (LastCompare /\ last.called /\ last.status \in ResolutionFailures) =>
        /\ last.stderr # ""
        /\ last.exit # ExitOk
        /\ last.exit # ExitUsage

-----------------------------------------------------------------------------
(* Claims: failures of the harness *)

AllowedPhases == {S_before, S_after}

\* C11 as stated: a call whose given phase is not literally "before" or
\* "after" fails with InvalidArgument before any I/O.
C11_AsClaimed ==
    (LastBench /\ last.args.phase \notin AllowedPhases) =>
        last.status = "InvalidArgument" /\ last.io = <<>>

C11_Step ==
    (/\ last'.op = "run_benchmarks"
     /\ Lower(Strip(last'.args.phase)) \notin AllowedPhases)
    => /\ last'.status = "InvalidArgument"
       /\ last'.exc = S_ValueError
       /\ last'.io = <<>>
       /\ last'.executed = <<>>
       /\ fs' = fs

\* C11: a call whose phase, trimmed and lower-cased, is not "before" or
\* "after" fails with InvalidArgument before any I/O: no directory is made,
\* no connection is opened, nothing is executed and no file is written.
C11_InvalidPhaseBeforeIo == [][C11_Step]_vars

\* a malformed phase has been rejected on a file system that holds a run
C11_Witness ==
    /\ LastBench
    /\ last.args.phase = <<"x">>
    /\ last.status = "InvalidArgument"
    /\ Exists(fs, InOutDir(CsvName(R1, S_after)))


\* the artifacts of run r1, both phases
ArtifactsOfR1 ==
    {InOutDir(CsvName(R1, ph)) : ph \in AllowedPhases}
        \cup {InOutDir(MdName(R1, ph)) : ph \in AllowedPhases}
        \cup {InOutDir(MetaName(R1))}

\* the executions a call makes when none fails
PlanLen(args) == NumQueries * (Max0(args.warmup) + Max0(args.iters))

C12_Step ==
    (/\ last'.op = "run_benchmarks"
     /\ PhaseOk(Lower(Strip(last'.args.phase)))
     /\ ~last'.connFail
     /\ last'.failAt \in 1..PlanLen(last'.args))
    => /\ last'.status = "ExecutionError"
       /\ Len(last'.executed) = last'.failAt - 1
       /\ \A p \in ArtifactsOfR1 :
            /\ Exists(fs', p) <=> Exists(fs, p)
            /\ Exists(fs, p) => fs'[p] = fs[p]
       /\ DOMAIN fs' \subseteq DOMAIN fs \cup {OutDirPath}

\* C12: a call in which an execution of a query (warmup or measured, of any
\* query) fails, fails as a whole and leaves the CSV, the markdown report and
\* the metadata file of the run as they were: absent, or as an earlier call
\* wrote them.
C12_FailureWritesNothing == [][C12_Step]_vars

\* the last measured execution of the last query failed, on top of a run
\* whose "after" phase an earlier call had written
C12_Witness ==
    /\ LastBench
    /\ last.status = "ExecutionError"
    /\ last.args.phase = S_after
    /\ last.failAt = NumQueries * (MaxWarmup + MaxIters)
    /\ Len(last.executed) = last.failAt - 1
    /\ Exists(fs, InOutDir(CsvName(R1, S_after)))
    /\ Exists(fs, InOutDir(MetaName(R1)))

\* C19: a relation whose count fails gets null in row_counts and no other
\* does; the call completes, the three artifacts are written and the
\* measurement rows are those of a call on a store that counts everything.
C19_CountFailureIsNull ==
    (/\ LastBench
     /\ PhaseOk(Lower(Strip(last.args.phase)))
     /\ last.args.iters >= 1
     /\ ~last.connFail
     /\ last.failAt \notin 1..PlanLen(last.args))
    => /\ last.status = "ok"
       /\ Exists(fs, last.ret)
       /\ Exists(fs, InOutDir(MdName(last.run_id, last.phase)))
       /\ Exists(fs, InOutDir(MetaName(last.run_id)))
       /\ \A r \in RelationSet :
            fs[InOutDir(MetaName(last.run_id))].obj.row_counts[r]
                = IF r \in last.broken THEN IntNone ELSE IntSome(Store0.counts[r])
       /\ fs[last.ret].rows
            = AllRows(Env0, last.run_id, last.phase, QUERIES, last.args.warmup,
                      last.args.iters)

\* the counts of the second and the sixth relation failed
C19_Witness ==
    /\ LastBenchOk
    /\ last.broken = {Relations[2], Relations[6]}
    /\ fs[InOutDir(MetaName(R1))].obj.row_counts[Relations[2]] = IntNone
    /\ fs[InOutDir(MetaName(R1))].obj.row_counts[Relations[1]] = IntSome(0)

-----------------------------------------------------------------------------
(* Claims: the explicit file pair *)

\* the call named two files and no run_id
PairBranch ==
    LastResolve /\ GivenRunId = <<>> /\ GivenBefore # <<>> /\ GivenAfter # <<>>

PairBefore == PathOf(GivenBefore)
PairAfter  == PathOf(GivenAfter)

PairExists == Exists(fs, PairBefore) /\ Exists(fs, PairAfter)

\* both names pass the phase checks of bench_compare.py:85-88
PairPhasesOk ==
    /\ ParseName(PairBefore.name).phase = S_before
    /\ ParseName(PairAfter.name).phase = S_after

\* both names end in the token of their phase
PairSuffixesOk ==
    /\ EndsWith(PairBefore.name, S_before_csv)
    /\ EndsWith(PairAfter.name, S_after_csv)

\* the name of one of the two files yields no run_id
PairUnparseable ==
    \/ ParseName(PairBefore.name).run_id = None
    \/ ParseName(PairAfter.name).run_id = None

\* C13: without run_id and with allow_mismatched_runs false, two existing
\* files with the right phase suffixes whose parsed run_ids differ are
\* rejected with Mismatch, and no pair is returned.
C13_PairMismatchRejected ==
    (/\ PairBranch /\ ~last.args.allow_mismatched_runs
     /\ PairExists /\ PairPhasesOk
     /\ ParseName(PairBefore.name).run_id # ParseName(PairAfter.name).run_id)
    => /\ last.status = "Mismatch"
       /\ last.exc = S_ValueError
       /\ last.before = NoPath /\ last.after = NoPath /\ last.matched = None

\* r1's "before" against r2's "after", strictly
C13_Witness ==
    /\ PairBranch /\ ~last.args.allow_mismatched_runs
    /\ PairBefore = InOutDir(CsvName(R1, S_before))
    /\ PairAfter = InOutDir(CsvName(R2, S_after))
    /\ PairExists
    /\ last.status = "Mismatch"

\* C14: with allow_mismatched_runs false, an existing pair with the right
\* phase suffixes in which a name yields no run_id fails with AmbiguousRunId
\* ("Cannot infer run_id from file names").
C14_AmbiguousRunIdReported ==
    (/\ PairBranch /\ ~last.args.allow_mismatched_runs
     /\ PairExists /\ PairSuffixesOk /\ PairUnparseable)
    => /\ last.status = "AmbiguousRunId"
       /\ last.msg = "Cannot infer run_id from file names"

\* what the code does instead: no call ever ends in AmbiguousRunId
C14_NeverAmbiguous == LastResolve => last.status # "AmbiguousRunId"

\* the pair the call returned is the pair it was given
PairReturned ==
    last.status = "ok" /\ last.before = PairBefore /\ last.after = PairAfter

\* C15: with allow_mismatched_runs true, two existing files that pass the
\* phase checks are accepted whatever their run_ids; matched_run_id is the
\* run_id both names parse to, absent when they parse to different ones, and
\* then the report is labelled "mixed".
C15_MismatchAllowed ==
    /\ (/\ PairBranch /\ last.args.allow_mismatched_runs
        /\ PairExists /\ PairPhasesOk)
       => /\ PairReturned
          /\ last.matched =
                IF ParseName(PairBefore.name).run_id = ParseName(PairAfter.name).run_id
                THEN ParseName(PairBefore.name).run_id ELSE None
    /\ (LastCompareOk /\ last.argv.run_id = <<>> /\ last.argv.before_file # <<>>)
       => /\ last.matched =
                IF ParseName(last.before.name).run_id = ParseName(last.after.name).run_id
                THEN ParseName(last.before.name).run_id ELSE None
          /\ fs[last.report].run_label =
                IF last.matched = None THEN S_mixed ELSE last.matched

\* r1's "before" has been compared with r2's "after": the report says mixed
C15_Witness ==
    /\ LastCompareOk
    /\ last.argv.allow_mismatched_runs
    /\ last.before = InOutDir(CsvName(R1, S_before))
    /\ last.after = InOutDir(CsvName(R2, S_after))
    /\ last.matched = None
    /\ fs[last.report].run_label = S_mixed

\* C16: with allow_mismatched_runs true, an existing pair with the right
\* phase suffixes in which a name yields no run_id is accepted: the pair is
\* returned with matched_run_id absent.
C16_UnparseableAllowed ==
    (/\ PairBranch /\ last.args.allow_mismatched_runs
     /\ PairExists /\ PairSuffixesOk /\ PairUnparseable)
    => PairReturned /\ last.matched = None


-----------------------------------------------------------------------------
(* Claims: the explicit run_id, auto-discovery, what the comparator writes *)

\* C17: with a run_id, each slot is the supplied file when one is given and
\* benchmarks_<run_id>_<phase>.csv of the report directory otherwise; a slot
\* that does not exist fails the call with NotFound; a call that succeeds
\* returns exactly the two slots, with matched_run_id the requested run_id.
C17_SlotsByRunId ==
    (LastResolve /\ GivenRunId # <<>>) =>
        /\ (~Exists(fs, SlotBefore) \/ ~Exists(fs, SlotAfter)) =>
            (last.status = "NotFound" /\ last.exc = S_FileNotFoundError)
        /\ last.status = "ok" =>
            /\ last.before = SlotBefore
            /\ last.after = SlotAfter
            /\ last.matched = GivenRunId
        /\ last.status \in {"ok", "NotFound", "InvalidFormat", "Mismatch"}

\* r1 with its "after" table named and its "before" table derived
C17_Witness ==
    /\ LastResolve
    /\ last.args.run_id = R1
    /\ last.args.before_file = <<>>
    /\ last.args.after_file = InReports(CsvName(R1, S_after))
    /\ last.status = "ok"
    /\ last.before = InOutDir(CsvName(R1, S_before))


\* the call named nothing: auto-discovery
AutoCall ==
    LastResolve /\ GivenRunId = <<>> /\ GivenBefore = <<>> /\ GivenAfter = <<>>

\* the run ids of the grammar that have both tables in the report directory
CompleteHere == {r \in {R1, R2} : CsvHere(r, S_before) /\ CsvHere(r, S_after)}

\* C18: auto-discovery looks only at names of the grammar
\* benchmarks_<run_id>_<before|after>.csv, keeps the run_ids with both
\* phases, fails NotFound when there is none (an empty directory, one-phase
\* runs only), and never returns a path that does not exist.
C18_AutoDiscovery ==
    AutoCall =>
        /\ last.status \in {"ok", "NotFound"}
        /\ CompleteHere = {} =>
            (last.status = "NotFound" /\ last.exc = S_FileNotFoundError)
        /\ last.status = "ok" =>
            /\ last.matched \in CompleteHere
            /\ Exists(fs, last.before) /\ Exists(fs, last.after)
            /\ ParseName(last.before.name) = [run_id |-> last.matched, phase |-> S_before]
            /\ ParseName(last.after.name) = [run_id |-> last.matched, phase |-> S_after]

\* a one-phase run and two names outside the grammar: nothing is discovered
C18_Witness ==
    /\ AutoCall
    /\ CsvHere(R2, S_after) /\ ~CsvHere(R1, S_before)
    /\ CsvHere(<<>>, S_before) /\ CsvHere(<<>>, S_after)
    /\ last.status = "NotFound"


\* the name of a comparison report: benchmarks_speedup_<id>.md
IsSpeedupReport(path) ==
    /\ path.dir = OutDir
    /\ StartsWith(path.name, S_benchmarks \o S_speedup)
    /\ EndsWith(path.name, S_md)
    /\ Len(path.name) > Len(S_benchmarks \o S_speedup) + Len(S_md)

C20_Step ==
    last'.op \in {"resolve", "bench-compare"} =>
        /\ \A p \in DOMAIN fs :
            /\ p \in DOMAIN fs'
            /\ fs'[p] # fs[p] =>
                (last'.op = "bench-compare" /\ last'.status = "ok" /\ p = last'.report)
        /\ \A p \in DOMAIN fs' \ DOMAIN fs :
            last'.op = "bench-compare" /\ last'.status = "ok" /\ p = last'.report
        /\ last'.status = "ok" /\ last'.op = "bench-compare" => IsSpeedupReport(last'.report)
        /\ last'.status # "ok" => fs' = fs

\* C20: a call of the resolver or of the comparator, failing or not, leaves
\* every measurement CSV and metadata file as it was; the one file it may
\* write is its report benchmarks_speedup_<id>.md, and a failing call writes
\* nothing.
C20_ReadOnly == [][C20_Step]_vars

\* a report has been written next to the tables and the metadata of run r1
C20_Witness ==
    /\ LastCompareOk
    /\ Exists(fs, last.report)
    /\ Exists(fs, InOutDir(CsvName(R1, S_before)))
    /\ Exists(fs, InOutDir(CsvName(R1, S_after)))
    /\ Exists(fs, InOutDir(MetaName(R1)))


-----------------------------------------------------------------------------
(* Claims: invocations that interleave, the metadata over many invocations *)

\* the last step on the metadata file was a write, by a process that has not
\* begun another invocation since
JustWrote ==
    /\ last.op = "step"
    /\ last.log[Len(last.log)].ev = "write"
    /\ inv[last.log[Len(last.log)].proc].pc = "idle"

Writer == last.log[Len(last.log)].proc

\* where in the log the writer loaded the record it has merged
WriterLoad ==
    CHOOSE j \in 1..Len(last.log) :
        /\ last.log[j] = [proc |-> Writer, ev |-> "load", phase |-> inv[Writer].m.phase]
        /\ \A k \in (j + 1)..Len(last.log) :
            ~(last.log[k].proc = Writer /\ last.log[k].ev = "load")

\* the phases that other processes wrote between that load and this write
Overtaken ==
    {last.log[i].phase : i \in {k \in (WriterLoad + 1)..(Len(last.log) - 1) :
                                    last.log[k].ev = "write"}}

\* C21: the metadata file is read, merged and written without a lock: the
\* record on disk after a write is the merge of what that writer had loaded,
\* so a phases entry that another invocation wrote between the load and the
\* write, and that the writer had not loaded, is missing from it.
C21_LastWriterWins ==
    JustWrote =>
        LET final  == fs[inv[Writer].m.meta_path].obj
            loaded == inv[Writer].meta
        IN  /\ DOMAIN final.phases = DOMAIN loaded.phases \cup {inv[Writer].m.phase}
            /\ \A ph \in Overtaken \ (DOMAIN loaded.phases \cup {inv[Writer].m.phase}) :
                ph \notin DOMAIN final.phases
            /\ final.phase = inv[Writer].m.phase

\* both invocations loaded before either wrote; the entry of the first writer
\* is missing although its CSV is on disk
C21_Witness ==
    /\ JustWrote
    /\ Len(last.log) = 4
    /\ last.log[1].ev = "load" /\ last.log[2].ev = "load"
    /\ last.log[3].ev = "write" /\ last.log[3].phase = S_before
    /\ last.log[4].phase = S_after
    /\ DOMAIN fs[InOutDir(MetaName(R1))].obj.phases = {S_after}
    /\ Exists(fs, InOutDir(CsvName(R1, S_before)))


\* the run ids the harness is called with
RunIdPool == {R1, R2}

\* C22: when invocations run one at a time, every measurement CSV
\* benchmarks_<run_id>_<phase>.csv of the report directory has its entry
\* phases[<phase>] in bench_meta_<run_id>.json, which names that CSV and its
\* report, and both files exist.
C22_CsvHasPhaseEntry ==
    \A r \in RunIdPool, ph \in AllowedPhases :
        CsvHere(r, ph) =>
            /\ Exists(fs, InOutDir(MdName(r, ph)))
            /\ Exists(fs, InOutDir(MetaName(r)))
            /\ fs[InOutDir(MetaName(r))].kind = "json"
            /\ ph \in DOMAIN fs[InOutDir(MetaName(r))].obj.phases
            /\ LET entry == fs[InOutDir(MetaName(r))].obj.phases[ph]
               IN  /\ entry.phase = ph
                   /\ entry.csv_file = InOutDir(CsvName(r, ph))
                   /\ entry.md_file = InOutDir(MdName(r, ph))
            /\ fs[InOutDir(MetaName(r))].obj.run_id = r

\* both phases of r1 have been measured, "after" last and later
C22_Witness ==
    /\ LastBenchOk
    /\ last.phase = S_after
    /\ CsvHere(R1, S_before) /\ CsvHere(R1, S_after)
    /\ DOMAIN fs[InOutDir(MetaName(R1))].obj.phases = AllowedPhases
    /\ fs[InOutDir(MetaName(R1))].obj.last_updated_at
            # fs[InOutDir(MetaName(R1))].obj.created_at


\* C23 (as claimed): every completed invocation for a run_id after the first
\* leaves the git_sha of the metadata as it found it, so the record always
\* carries the value the first invocation wrote, whatever revision a later
\* invocation observes.
C23_Step ==
    (/\ last'.op = "run_benchmarks"
     /\ last'.status = "ok"
     /\ Exists(fs, MetaPath(last'.run_id))) =>
        fs'[MetaPath(last'.run_id)].obj.git_sha = fs[MetaPath(last'.run_id)].obj.git_sha

C23_GitShaPreserved == [][C23_Step]_vars


\* C24: run ids generated at clock readings t1 < t2 (microsecond resolution)
\* satisfy id(t1) < id(t2) as strings, so the greatest of them in str order is
\* the one generated last; a run_id given by the caller is used as given once
\* trimmed, and a missing or blank one is replaced by the id generated at the
\* time of the call.
C24_Generated ==
    last.op = "_generate_run_id" =>
        /\ Later(last.t1, last.t2)
        /\ StrLess(last.id1, last.id2)
        /\ StrMax({last.id1, last.id2}) = last.id2

C24_Step ==
    (last'.op = "run_benchmarks" /\ last'.status = "ok" /\ last' # last) =>
        /\ Exists(fs', InOutDir(CsvName(last'.run_id, S_before)))
        /\ IF last'.args.run_id = None \/ Strip(last'.args.run_id) = <<>>
           THEN last'.run_id = _generate_run_id(now)
           ELSE last'.run_id = Strip(last'.args.run_id)

C24_RunIdOrder == []C24_Generated /\ [][C24_Step]_vars

\* two ids of the same second, the earlier with fewer digits of microseconds
C24_Witness ==
    /\ last.op = "_generate_run_id"
    /\ last.t1.sec = last.t2.sec
    /\ last.t1.usec = 9
    /\ last.t2.usec = 10
    /\ \E p \in DOMAIN fs : ParseName(p.name).run_id = _generate_run_id(last.t1)


\* position of a query in the catalog
CatalogIndex(q) == CHOOSE i \in 1..Len(CatalogIds) : CatalogIds[i] = q

\* the i-values of the executions of kind k of query q, among the first n
ExecutedOf(q, k, n) ==
    {last.executed[a].i : a \in {b \in 1..n : /\ last.executed[b].query = q
                                              /\ last.executed[b].kind = k}}

\* the iter column of the rows of query q, in file order
RECURSIVE IterColumn(_, _)
IterColumn(rows, q) ==
    IF rows = <<>> THEN <<>>
    ELSE IF Head(rows).query = q
         THEN <<Head(rows).iter>> \o IterColumn(Tail(rows), q)
         ELSE IterColumn(Tail(rows), q)

\* C25: within one call the store sees the executions in a fixed order: the
\* queries in catalog order, each query's `warmup` executions before its first
\* measured one, and all of a query's executions before any of the next
\* query; the rows recorded for a query carry iter 1, 2, ..., iters, each once
\* and in increasing order.
C25_ExecutionOrder ==
    LastBench =>
        /\ \A a, b \in 1..Len(last.executed) :
            a < b =>
                LET x == last.executed[a]
                    y == last.executed[b]
                IN  /\ CatalogIndex(x.query) <= CatalogIndex(y.query)
                    /\ x.query = y.query =>
                        /\ ~(x.kind = "measured" /\ y.kind = "warmup")
                        /\ x.kind = y.kind => x.i < y.i
        /\ \A b \in 1..Len(last.executed) :
            LET y == last.executed[b]
            IN  /\ y.kind = "measured" =>
                    /\ ExecutedOf(y.query, "warmup", b) = 1..Max0(last.args.warmup)
                    /\ ExecutedOf(y.query, "measured", b) = 1..y.i
                /\ \A q \in QuerySet :
                    CatalogIndex(q) < CatalogIndex(y.query) =>
                        /\ ExecutedOf(q, "warmup", b) = 1..Max0(last.args.warmup)
                        /\ ExecutedOf(q, "measured", b) = 1..Max0(last.args.iters)
        /\ last.status = "ok" =>
            /\ Len(last.executed) = PlanLen(last.args)
            /\ \A q \in QuerySet :
                IterColumn(fs[last.ret].rows, q) = [i \in 1..last.args.iters |-> i]
            /\ \A a, b \in 1..Len(fs[last.ret].rows) :
                a < b => CatalogIndex(fs[last.ret].rows[a].query)
                            <= CatalogIndex(fs[last.ret].rows[b].query)

\* a completed call with warmup and two iterations of every query
C25_Witness ==
    /\ LastBenchOk
    /\ last.args.warmup = 1
    /\ last.args.iters = 2
    /\ Len(last.executed) = 3 * NumQueries
    /\ last.executed[1].kind = "warmup"
    /\ last.executed[4].query = Q2
    /\ Len(fs[last.ret].rows) = 2 * NumQueries


(* Claims: ingest *)

LastIngestOk == last.op = "ingest_all" /\ last.status = "ok"

\* the months of a call, stripped, blanks dropped
Asked(months) == {Strip(months[i]) : i \in 1..Len(months)} \ {<<>>}

\* positions of the log of a call where ev happened to batch_id
EventsAt(log, ev, batch_id) ==
    {i \in 1..Len(log) : log[i] = IngestEvent(ev, batch_id)}

C26_OneCopy ==
    \A m \in Months : BatchRows(db.yellow, m) \in {0, Remote[m]}

C26_Step ==
    (last'.op = "ingest_all" /\ last'.status = "ok") =>
        \A m \in Months :
            LET log     == last'.log
                loads   == EventsAt(log, "load", m)
                deletes == EventsAt(log, "delete", m)
            IN  IF m \notin Asked(last'.months)
                THEN /\ BatchRows(db'.yellow, m) = BatchRows(db.yellow, m)
                     /\ loads = {} /\ deletes = {}
                ELSE /\ BatchRows(db'.yellow, m) = Remote[m]
                     /\ (BatchRows(db.yellow, m) > 0 /\ ~last'.replace_batch) =>
                            /\ loads = {} /\ deletes = {}
                            /\ EventsAt(log, "skip", m) # {}
                     /\ (BatchRows(db.yellow, m) > 0 /\ last'.replace_batch) =>
                            /\ loads # {}
                            /\ \A i \in loads : \E j \in deletes :
                                /\ j < i
                                /\ \A k \in loads : ~(j < k /\ k < i)

\* C26: for a month whose batch_id is already in raw.yellow_trips a completed
\* ingest_all with replace_batch false skips the month and loads no row, and
\* with replace_batch true every load of the month comes right after a delete
\* of its old rows; so after any sequence of calls every batch_id holds no row
\* or exactly one copy of its month's rows, and exactly one copy after a
\* completed call that names the month.
C26_IngestIdempotent == []C26_OneCopy /\ [][C26_Step]_vars

\* both months are there; a completed call with replace_batch replaced the
\* first and loaded it again
C26_Witness ==
    /\ LastIngestOk
    /\ last.replace_batch
    /\ last.log = <<IngestEvent("delete", M1), IngestEvent("load", M1)>>
    /\ BatchRows(db.yellow, M1) = Remote[M1]
    /\ BatchRows(db.yellow, M2) = Remote[M2]


(* Claims: names *)

\* C27: for every run_id (trimmed, not empty) and phase the name the harness
\* writes, benchmarks_<run_id>_<phase>.csv, is parsed by _parse_report_name
\* back to that run_id and phase, also when the run_id contains "_before" or
\* "_after"; so the resolver asked for run_id r returns the pair the harness
\* wrote for r.
C27_NameRoundTrip ==
    /\ LastBenchOk =>
        /\ last.run_id = Strip(last.args.run_id)
        /\ last.ret = InOutDir(CsvName(last.run_id, last.phase))
        /\ Exists(fs, last.ret)
    /\ \A r \in NameRunIds, ph \in AllowedPhases :
        CsvHere(r, ph) =>
            ParseName(CsvName(r, ph)) = [run_id |-> r, phase |-> ph]
    /\ (/\ LastResolve
        /\ CsvHere(last.args.run_id, S_before)
        /\ CsvHere(last.args.run_id, S_after)) =>
            /\ last.status = "ok"
            /\ last.before = InOutDir(CsvName(last.args.run_id, S_before))
            /\ last.after = InOutDir(CsvName(last.args.run_id, S_after))
            /\ last.matched = last.args.run_id

\* the pair of the run "r1_before_after", written by the harness, is resolved
C27_Witness ==
    /\ LastResolve
    /\ last.args.run_id = R1 \o S_us \o S_before \o S_us \o S_after
    /\ last.status = "ok"
    /\ fs[last.before].rows # <<>>
    /\ fs[last.after].rows # <<>>


\* C28: whenever resolve succeeds, by run_id, by a pair of files or by
\* auto-discovery, strict or not: both paths returned exist, the name of the
\* before path parses to phase "before" and that of the after path to phase
\* "after", and when matched_run_id is present both names parse to that run_id.
C28_ResolvePostcondition ==
    (LastResolve /\ last.status = "ok") =>
        /\ Exists(fs, last.before)
        /\ Exists(fs, last.after)
        /\ ParseName(last.before.name).phase = S_before
        /\ ParseName(last.after.name).phase = S_after
        /\ last.matched # None =>
            /\ ParseName(last.before.name).run_id = last.matched
            /\ ParseName(last.after.name).run_id = last.matched

\* a pair of files of run r2, the "before" one in the working directory
C28_Witness ==
    /\ LastResolve
    /\ last.status = "ok"
    /\ GivenRunId = <<>>
    /\ last.before = PathOf(CsvName(R2, S_before))
    /\ last.after = InOutDir(CsvName(R2, S_after))
    /\ last.matched = R2

====
